---- MODULE Spec2Model ----
(***************************************************************************)
(* Verification model of qsteed (BAQIS-Quantum/qsteed): the DAG circuit    *)
(* representation, the circuit/DAG conversion, the rule-table unrolling    *)
(* passes and SABRE routing/layout.                                        *)
(***************************************************************************)
EXTENDS Integers, Sequences, FiniteSets, TLC

VARIABLES g, h, npos, hist, sane,          \* DAG circuits
          Rules_dict, uBasis, uIn, uOut, uRun, \* unrolling passes
          cIn, cDag, cOut, cRun,              \* circuit/DAG conversion
          rIn, rCg, rMode, rPasses, rAlt,     \* SABRE: the call
          rDag, rFront, rCount, rLayout, rDecay, rIter, rSwaps, rMapped,
          rApply, rPc, rOut,                  \* SABRE: the routing run
          rHeur, rUnavail,                    \* SABRE: heuristic, unavailable_2qubits
          rLastSwap,                          \* SABRE: end of executed_2gate_list
          model, rGiven,                      \* SABRE: the Model and what was given
          oIn, oPair, oDag, oOut, oPc,        \* peephole optimization
          kCall, kTodo, kRan, kPc,            \* compiler entry points
          fIn, fArg, fSelf, fOut, fPc,        \* OpenQASM front end
          dSelf, dUnitary, dPc                \* unitary decomposition

dagVars == <<g, h, npos, hist, sane>>

unrollVars == <<Rules_dict, uBasis, uIn, uOut, uRun>>

convVars == <<cIn, cDag, cOut, cRun>>

routeVars ==
    <<rIn, rCg, rMode, rPasses, rAlt, rDag, rFront, rCount, rLayout, rDecay,
      rIter, rSwaps, rMapped, rApply, rPc, rOut, rHeur, rUnavail, rLastSwap,
      model, rGiven>>

optVars == <<oIn, oPair, oDag, oOut, oPc>>

compVars == <<kCall, kTodo, kRan, kPc>>

frontVars == <<fIn, fArg, fSelf, fOut, fPc>>

decompVars == <<dSelf, dUnitary, dPc>>

vars ==
    <<dagVars, unrollVars, convVars, routeVars, optVars, compVars, frontVars,
      decompVars>>

notDag ==
    <<unrollVars, convVars, routeVars, optVars, compVars, frontVars, decompVars>>

notUnroll ==
    <<dagVars, convVars, routeVars, optVars, compVars, frontVars, decompVars>>

notConv ==
    <<dagVars, unrollVars, routeVars, optVars, compVars, frontVars, decompVars>>

notRoute ==
    <<dagVars, unrollVars, convVars, optVars, compVars, frontVars, decompVars>>

notOpt ==
    <<dagVars, unrollVars, convVars, routeVars, compVars, frontVars, decompVars>>

notComp ==
    <<dagVars, unrollVars, convVars, routeVars, optVars, frontVars, decompVars>>

notFront == <<dagVars, unrollVars, convVars, routeVars, optVars, compVars, decompVars>>

notDecomp == <<dagVars, unrollVars, convVars, routeVars, optVars, compVars, frontVars>>

(***************************************************************************)
(* Bounds of the DAG model.                                                *)
(***************************************************************************)
MaxNodes == 3

DagQubits == 2

(***************************************************************************)
(* DAGCircuit: a networkx MultiDiGraph with the sentinels -1 (source) and  *)
(* float('inf') (sink).  A graph is a record of a node set and a set of    *)
(* edges [u, v, k, q]: from u to v, multigraph key k, attribute label q.   *)
(***************************************************************************)
Src == -1

Snk == MaxNodes + 2

NodeIds == 1..MaxNodes

Qubits == 0..(DagQubits - 1)

AllNodes == NodeIds \cup {Src, Snk}

EmptyGraph == [nodes |-> {}, edges |-> {}]

MinOf(S) == CHOOSE x \in S : \A y \in S : x <= y

EdgesBetween(G, u, v) == {e \in G.edges : e.u = u /\ e.v = v}

\* networkx MultiDiGraph.new_edge_key: start at the number of parallel edges
\* and count up while the key is taken.
new_edge_key(G, u, v) ==
    LET ks == {e.k : e \in EdgesBetween(G, u, v)}
        n == Cardinality(ks)
    IN  CHOOSE k \in n..(2 * n) : k \notin ks /\ \A j \in n..(k - 1) : j \in ks

add_edge(G, u, v, q) ==
    [nodes |-> G.nodes \cup {u, v},
     edges |-> G.edges \cup {[u |-> u, v |-> v, k |-> new_edge_key(G, u, v), q |-> q]}]

remove_node(G, n) ==
    [nodes |-> G.nodes \ {n},
     edges |-> {e \in G.edges : e.u # n /\ e.v # n}]

\* update_qubits_used: the labels of the out-edges of the source.
update_qubits_used(G) == {e.q : e \in {e \in G.edges : e.u = Src}}

InEdgesOn(G, n, q) == {e \in G.edges : e.v = n /\ e.q = q}

OutEdgesOn(G, n, q) == {e \in G.edges : e.u = n /\ e.q = q}

\* node_qubits_inedges / node_qubits_outedges build a dict keyed by the edge
\* label; with several edges of one label the dict keeps one of them.
node_qubits_inedges(G, n) ==
    LET D == {e.q : e \in {e \in G.edges : e.v = n}}
    IN  {f \in [D -> G.edges] : \A q \in D : f[q] \in InEdgesOn(G, n, q)}

node_qubits_outedges(G, n) ==
    LET D == {e.q : e \in {e \in G.edges : e.u = n}}
    IN  {f \in [D -> G.edges] : \A q \in D : f[q] \in OutEdgesOn(G, n, q)}

node_qubits_predecessors(G, n) ==
    {[q \in DOMAIN f |-> f[q].u] : f \in node_qubits_inedges(G, n)}

node_qubits_successors(G, n) ==
    {[q \in DOMAIN f |-> f[q].v] : f \in node_qubits_outedges(G, n)}

\* for qubit in pos: add_edge(P[qubit], S[qubit], label=q{qubit})
RECURSIVE AddBypassEdges(_, _, _, _)
AddBypassEdges(G, qs, P, S) ==
    IF qs = {} THEN G
    ELSE LET q == MinOf(qs)
         IN  AddBypassEdges(add_edge(G, P[q], S[q], q), qs \ {q}, P, S)

\* for qubit in pos: add_edge(P[qubit], gate); add_edge(gate, S[qubit])
RECURSIVE AddGateEdges(_, _, _, _, _)
AddGateEdges(G, n, qs, P, S) ==
    IF qs = {} THEN G
    ELSE LET q == MinOf(qs)
             G1 == add_edge(G, P[q], n, q)
             G2 == add_edge(G1, n, S[q], q)
         IN  AddGateEdges(G2, n, qs \ {q}, P, S)

\* variant that drops the node without reconnecting its neighbours
remove_instruction_node_nobypass(G, n, pos, P, S) ==
    remove_node(G, n)

\* remove_instruction_node with the looked-up dicts P and S
remove_instruction_node(G, n, pos, P, S) ==
    remove_node(AddBypassEdges(G, pos, P, S), n)

\* add_instruction_node: the edges removed are, per used qubit of the gate,
\* the out-edge of the predecessor and the in-edge of the successor.
AddRemovedEdges(G, pos, P, S) ==
    LET used == pos \cap update_qubits_used(G)
        FO == {f \in [used -> G.edges] : \A q \in used : f[q] \in OutEdgesOn(G, P[q], q)}
        FI == {f \in [used -> G.edges] : \A q \in used : f[q] \in InEdgesOn(G, S[q], q)}
    IN  {{c[1][q] : q \in used} \cup {c[2][q] : q \in used} : c \in FO \X FI}

\* variant that keeps the edges the insertion should cut
add_instruction_node_keep(G, n, pos, P, S, R) ==
    AddGateEdges([nodes |-> G.nodes \cup {n}, edges |-> G.edges], n, pos, P, S)

add_instruction_node(G, n, pos, P, S, R) ==
    LET G1 == [nodes |-> G.nodes \cup {n}, edges |-> G.edges \ R]
    IN  AddGateEdges(G1, n, pos, P, S)

\* add_instruction_node_end
EndPredecessors(G, pos) ==
    {[q \in pos |-> IF q \in DOMAIN ip THEN ip[q] ELSE Src] :
        ip \in node_qubits_predecessors(G, Snk)}

EndSuccessors(pos) == [q \in pos |-> Snk]

add_instruction_node_end_first(G, n, pos) ==
    LET G1 == [nodes |-> G.nodes \cup {Src, Snk, n}, edges |-> G.edges]
    IN  AddGateEdges(G1, n, pos, [q \in pos |-> Src], [q \in pos |-> Snk])

add_instruction_node_end(G, n, pos) ==
    IF Src \notin G.nodes \/ Snk \notin G.nodes
    THEN {add_instruction_node_end_first(G, n, pos)}
    ELSE UNION {{add_instruction_node(G, n, pos, P, EndSuccessors(pos), R) :
                    R \in AddRemovedEdges(G, pos, P, EndSuccessors(pos))} :
                P \in EndPredecessors(G, pos)}

\* self.add_edges_from(other.edges(data=True)): every edge gets a fresh key
RECURSIVE add_edges_from(_, _)
add_edges_from(G, E) ==
    IF E = {} THEN G
    ELSE LET e == CHOOSE x \in E :
                    \A y \in E : (y.u = x.u /\ y.v = x.v) => x.k <= y.k
         IN  add_edges_from(add_edge(G, e.u, e.v, e.q), E \ {e})

\* substitute_node_with_dag: the loop adding pred -> start and end -> succ
RECURSIVE AddSpliceEdges(_, _, _, _, _, _)
AddSpliceEdges(G, qs, P, S, startnodes, endnodes) ==
    IF qs = {} THEN G
    ELSE LET q == MinOf(qs)
             G1 == add_edge(G, P[q], startnodes[q], q)
             G2 == add_edge(G1, endnodes[q], S[q], q)
         IN  AddSpliceEdges(G2, qs \ {q}, P, S, startnodes, endnodes)

\* substitute_node_with_dag with the looked-up dicts; H1 is input_dag after
\* its sentinels were removed
substitute_node_with_dag(G, n, H1, qs, P, S, startnodes, endnodes) ==
    LET G1 == remove_node(G, n)
        G2 == AddSpliceEdges(G1, qs, P, S, startnodes, endnodes)
        G3 == [nodes |-> G2.nodes \cup H1.nodes, edges |-> G2.edges]
    IN  add_edges_from(G3, H1.edges)

\* merge_dag: per shared qubit, cut self's edge into the sink and other's
\* edge out of the source and join the two ends.  Returns <<self, other>>.
RECURSIVE MergeJoin(_, _, _, _, _)
MergeJoin(G, H, qs, ends, starts) ==
    IF qs = {} THEN <<G, H>>
    ELSE LET q == MinOf(qs)
             G1 == [G EXCEPT !.edges = @ \ {ends[q]}]
             H1 == [H EXCEPT !.edges = @ \ {starts[q]}]
             G2 == add_edge(G1, ends[q].u, starts[q].v, q)
         IN  MergeJoin(G2, H1, qs \ {q}, ends, starts)

merge_dag(G, H, ends, starts) ==
    LET qs == update_qubits_used(G) \cap update_qubits_used(H)
        J == MergeJoin(G, H, qs, ends, starts)
        G3 == [nodes |-> J[1].nodes \cup J[2].nodes, edges |-> J[1].edges]
    IN  <<add_edges_from(G3, J[2].edges), J[2]>>

(***************************************************************************)
(* Structural predicates I1 (acyclic), I2 (sentinels), I3 (one in-edge and *)
(* one out-edge per qubit of every instruction node).                      *)
(***************************************************************************)
Succs(G, n) == {e.v : e \in {e \in G.edges : e.u = n}}

RECURSIVE ReachFrom(_, _)
ReachFrom(G, S) ==
    LET T == S \cup UNION {Succs(G, n) : n \in S}
    IN  IF T = S THEN S ELSE ReachFrom(G, T)

\* m is reachable from n by a path of at least one edge
Reaches(G, n, m) == m \in ReachFrom(G, Succs(G, n))

Acyclic(G) == \A n \in G.nodes : ~Reaches(G, n, n)

SentinelsOk(G) ==
    /\ \A e \in G.edges : e.v # Src /\ e.u # Snk

OneEdgePerQubit(G, P) ==
    \A n \in G.nodes \ {Src, Snk} :
        /\ {e.q : e \in {e \in G.edges : e.v = n}} = P[n]
        /\ {e.q : e \in {e \in G.edges : e.u = n}} = P[n]
        /\ \A q \in P[n] : Cardinality(InEdgesOn(G, n, q)) = 1
        /\ \A q \in P[n] : Cardinality(OutEdgesOn(G, n, q)) = 1

WellFormed(G, P) == Acyclic(G) /\ SentinelsOk(G) /\ OneEdgePerQubit(G, P)

\* the last operation; a removal also records the graph before it and the
\* predecessors and successors it looked up
NoHist ==
    [op |-> "none", n |-> 0, pos |-> {}, pre |-> EmptyGraph, other |-> EmptyGraph,
     P |-> <<>>, S |-> <<>>]

(***************************************************************************)
(* Editing one DAG: add_instruction_node_end, add_instruction_node,        *)
(* remove_instruction_node.                                                *)
(***************************************************************************)

AddEnd ==
    \E n \in NodeIds \ g.nodes, pos \in (SUBSET Qubits) \ {{}} :
        /\ npos' = [npos EXCEPT ![n] = pos]
        /\ g' \in add_instruction_node_end(g, n, pos)
        /\ hist' = [NoHist EXCEPT !.op = "add_end", !.n = n]
        /\ UNCHANGED <<h, sane, notDag>>

\* the caller's choice on a used wire: an edge of the wire (an adjacent
\* predecessor/successor pair); on an unused wire: the sentinels
InsertionPoints(G, pos) ==
    LET used == update_qubits_used(G)
    IN  {f \in [pos -> [u : AllNodes, v : AllNodes]] :
           \A q \in pos :
              IF q \in used
              THEN \E e \in G.edges : e.q = q /\ e.u = f[q].u /\ e.v = f[q].v
              ELSE f[q].u = Src /\ f[q].v = Snk}

\* no chosen successor is, or reaches, a chosen predecessor
ConsistentCut(G, pos, P, S) ==
    \A q1 \in pos, q2 \in pos :
        S[q1] # P[q2] /\ ~Reaches(G, S[q1], P[q2])

AddBetween ==
    /\ Src \in g.nodes
    /\ \E n \in NodeIds \ g.nodes, pos \in (SUBSET Qubits) \ {{}} :
       \E f \in InsertionPoints(g, pos) :
          LET P == [q \in pos |-> f[q].u]
              S == [q \in pos |-> f[q].v]
          IN  \E R \in AddRemovedEdges(g, pos, P, S) :
                /\ g' = add_instruction_node(g, n, pos, P, S, R)
                /\ npos' = [npos EXCEPT ![n] = pos]
                /\ hist' = [NoHist EXCEPT !.op = "add", !.n = n]
                /\ sane' = (sane /\ ConsistentCut(g, pos, P, S))
    /\ UNCHANGED <<h, notDag>>

Remove ==
    \E n \in g.nodes \ {Src, Snk} :
    \E P \in node_qubits_predecessors(g, n), S \in node_qubits_successors(g, n) :
        /\ npos[n] \subseteq DOMAIN P
        /\ npos[n] \subseteq DOMAIN S
        /\ g' = remove_instruction_node(g, n, npos[n], P, S)
        /\ npos' = [npos EXCEPT ![n] = {}]
        /\ hist' = [NoHist EXCEPT !.op = "remove", !.n = n, !.pos = npos[n],
                                   !.pre = g, !.P = P, !.S = S]
        /\ UNCHANGED <<h, sane, notDag>>

\* add_instruction_node(n, P, S) right after remove_instruction_node(n), with
\* the predecessors and successors looked up before the removal
AddBack ==
    /\ hist.op = "remove"
    /\ LET n == hist.n
           pos == hist.pos
       IN  \E R \in AddRemovedEdges(g, pos, hist.P, hist.S) :
             /\ g' = add_instruction_node(g, n, pos, hist.P, hist.S, R)
             /\ npos' = [npos EXCEPT ![n] = pos]
             /\ hist' = [hist EXCEPT !.op = "add_back"]
    /\ UNCHANGED <<h, sane, notDag>>

NextEdit == AddEnd \/ AddBetween \/ Remove \/ AddBack


(***************************************************************************)
(* Composing two DAGs: self (g) and another DAG (h) are built with         *)
(* add_instruction_node_end and remove_instruction_node, then h is         *)
(* substituted for a node of g or merged into g.  A node may be held by    *)
(* both graphs.                                                            *)
(***************************************************************************)
Composed == hist.op \in {"substitute", "merge"}

BuildSelf ==
    /\ ~Composed
    /\ \E n \in NodeIds \ g.nodes, pos \in (SUBSET Qubits) \ {{}} :
          /\ n \in h.nodes => pos = npos[n]
          /\ g' \in add_instruction_node_end(g, n, pos)
          /\ npos' = [npos EXCEPT ![n] = pos]
    /\ hist' = [NoHist EXCEPT !.op = "build"]
    /\ UNCHANGED <<h, sane, notDag>>

BuildOther ==
    /\ ~Composed
    /\ \E n \in NodeIds \ h.nodes, pos \in (SUBSET Qubits) \ {{}} :
          /\ n \in g.nodes => pos = npos[n]
          /\ h' \in add_instruction_node_end(h, n, pos)
          /\ npos' = [npos EXCEPT ![n] = pos]
    /\ hist' = [NoHist EXCEPT !.op = "build"]
    /\ UNCHANGED <<g, sane, notDag>>

TrimOther ==
    /\ ~Composed
    /\ \E n \in h.nodes \ {Src, Snk} :
       \E P \in node_qubits_predecessors(h, n), S \in node_qubits_successors(h, n) :
          /\ npos[n] \subseteq DOMAIN P
          /\ npos[n] \subseteq DOMAIN S
          /\ h' = remove_instruction_node(h, n, npos[n], P, S)
          /\ npos' = IF n \in g.nodes THEN npos ELSE [npos EXCEPT ![n] = {}]
    /\ hist' = [NoHist EXCEPT !.op = "build"]
    /\ UNCHANGED <<g, sane, notDag>>

Substitute ==
    /\ ~Composed
    /\ Src \in h.nodes /\ Snk \in h.nodes
    /\ \E n \in g.nodes \ {Src, Snk} :
          /\ update_qubits_used(h) = npos[n]
          /\ \E P \in node_qubits_predecessors(g, n),
                S \in node_qubits_successors(g, n),
                startnodes \in node_qubits_successors(h, Src),
                endnodes \in node_qubits_predecessors(h, Snk) :
                LET qs == update_qubits_used(h)
                    H1 == remove_node(remove_node(h, Src), Snk)
                IN  /\ qs \subseteq DOMAIN P /\ qs \subseteq DOMAIN S
                    /\ qs \subseteq DOMAIN startnodes /\ qs \subseteq DOMAIN endnodes
                    /\ g' = substitute_node_with_dag(g, n, H1, qs, P, S, startnodes, endnodes)
                    /\ h' = H1
                    /\ hist' = [NoHist EXCEPT !.op = "substitute", !.n = n, !.pos = npos[n],
                                               !.pre = g, !.other = h, !.P = P, !.S = S]
    /\ UNCHANGED <<npos, sane, notDag>>

Merge ==
    /\ ~Composed
    /\ Src \in h.nodes /\ Src \in g.nodes /\ Snk \in g.nodes
    /\ \E ends \in node_qubits_inedges(g, Snk), starts \in node_qubits_outedges(h, Src) :
          LET M == merge_dag(g, h, ends, starts)
          IN  /\ g' = M[1]
              /\ h' = M[2]
              /\ hist' = [NoHist EXCEPT !.op = "merge", !.pre = g, !.other = h]
    /\ UNCHANGED <<npos, sane, notDag>>

NextCompose == BuildSelf \/ BuildOther \/ TrimOther \/ Substitute \/ Merge


(***************************************************************************)
(* Gate unrolling: the rule classes of qsteed.passes.unroll.rules, the     *)
(* global table Rules_dict, UnrollToBasis and UnrollTo2Qubit.  A gate is a *)
(* record of its lower-case name and its positions; the positions of a     *)
(* multi-controlled gate are its controls followed by its target.  Gate    *)
(* parameters (angles) do not influence which gates a rule emits and are   *)
(* not represented.                                                        *)
(***************************************************************************)
MaxCtrls == 3

MaxCircLen == 1

Gate(name, pos) == [name |-> name, pos |-> pos]

Gt1(name, a) == Gate(name, <<a>>)

Gt2(name, a, b) == Gate(name, <<a, b>>)

Gt3(name, a, b, c) == Gate(name, <<a, b, c>>)

MaxOf(S) == CHOOSE x \in S : \A y \in S : y <= x

RECURSIVE Pow2(_)
Pow2(n) == IF n = 0 THEN 1 ELSE 2 * Pow2(n - 1)

\* build_gray_code(n)[r, i]
build_gray_code(n, r, i) ==
    IF i = 0 THEN r \div Pow2(n - 1)
    ELSE LET b == (r \div Pow2(n - 1 - i)) % 4
         IN  IF b \in {1, 2} THEN 1 ELSE 0

\* the gates of one iteration of the Gray-code loop (row r, previous row last)
GrayStep(ctrls, targ, n, r, last) ==
    LET ones_bits == {i \in 0..(n - 1) : build_gray_code(n, r, i) = 1}
        set_idx == MinOf(ones_bits)
        diff_idx == MinOf({i \in 0..(n - 1) :
                             build_gray_code(n, r, i) # build_gray_code(n, last, i)})
        next_idx == MinOf(ones_bits \ {set_idx})
        cxs == IF diff_idx # set_idx
               THEN <<Gt2("cx", ctrls[diff_idx + 1], ctrls[set_idx + 1])>>
               ELSE IF Cardinality(ones_bits) >= 2
                    THEN <<Gt2("cx", ctrls[next_idx + 1], ctrls[set_idx + 1])>>
                    ELSE <<>>
    IN  cxs \o <<Gt2("cp", ctrls[set_idx + 1], targ)>>

\* for i in range(1, len(graycode)), entered with last_code = row last
RECURSIVE GrayLoop(_, _, _, _, _)
GrayLoop(ctrls, targ, n, r, last) ==
    IF r > Pow2(n) - 1 THEN <<>>
    ELSE GrayStep(ctrls, targ, n, r, last) \o GrayLoop(ctrls, targ, n, r + 1, r)

Ctrls(op) == SubSeq(op.pos, 1, Len(op.pos) - 1)

Targ(op) == op.pos[Len(op.pos)]

\* ---- the rule classes: run(op) for an op of the rule's gate class ----
CNOTToCP(op) == <<Gt1("h", op.pos[2]), Gt2("cp", op.pos[1], op.pos[2]), Gt1("h", op.pos[2])>>

CNOTToCZ(op) == <<Gt1("h", op.pos[2]), Gt2("cz", op.pos[1], op.pos[2]), Gt1("h", op.pos[2])>>

CNOTToISWAP(op) ==
    <<Gt1("rz", op.pos[1]), Gt1("rx", op.pos[2]), Gt1("rz", op.pos[2]),
      Gt2("iswap", op.pos[1], op.pos[2]), Gt1("rx", op.pos[1]),
      Gt2("iswap", op.pos[1], op.pos[2]), Gt1("rz", op.pos[2])>>

CPToCNOT(op) ==
    <<Gt1("p", op.pos[1]), Gt2("cx", op.pos[1], op.pos[2]), Gt1("p", op.pos[2]),
      Gt2("cx", op.pos[1], op.pos[2]), Gt1("p", op.pos[2])>>

CSToCNOT(op) ==
    <<Gt1("p", op.pos[1]), Gt2("cx", op.pos[1], op.pos[2]), Gt1("p", op.pos[2]),
      Gt2("cx", op.pos[1], op.pos[2]), Gt1("p", op.pos[2])>>

CTToCNOT(op) ==
    <<Gt1("p", op.pos[1]), Gt2("cx", op.pos[1], op.pos[2]), Gt1("p", op.pos[2]),
      Gt2("cx", op.pos[1], op.pos[2]), Gt1("p", op.pos[2])>>

CYToCNOT(op) == <<Gt1("sdg", op.pos[2]), Gt2("cx", op.pos[1], op.pos[2]), Gt1("s", op.pos[2])>>

CZToCNOT(op) == <<Gt1("h", op.pos[2]), Gt2("cx", op.pos[1], op.pos[2]), Gt1("h", op.pos[2])>>

FredkinToToffoli(op) ==
    <<Gt2("cx", op.pos[3], op.pos[2]), Gt3("ccx", op.pos[1], op.pos[2], op.pos[3]),
      Gt2("cx", op.pos[3], op.pos[2])>>

HToRYRZ(op) == <<Gt1("ry", op.pos[1]), Gt1("rz", op.pos[1])>>

ISWAPToCNOT(op) ==
    <<Gt1("s", op.pos[1]), Gt1("s", op.pos[2]), Gt1("h", op.pos[1]),
      Gt2("cx", op.pos[1], op.pos[2]), Gt2("cx", op.pos[2], op.pos[1]), Gt1("h", op.pos[2])>>

PhaseToRZ(op) == <<Gt1("rz", op.pos[1])>>

RXXToCNOT(op) ==
    <<Gt1("h", op.pos[1]), Gt1("h", op.pos[2]), Gt2("cx", op.pos[1], op.pos[2]),
      Gt1("rz", op.pos[2]), Gt2("cx", op.pos[1], op.pos[2]),
      Gt1("h", op.pos[1]), Gt1("h", op.pos[2])>>

RYYToCNOT(op) ==
    <<Gt1("rx", op.pos[1]), Gt1("rx", op.pos[2]), Gt2("cx", op.pos[1], op.pos[2]),
      Gt1("rz", op.pos[2]), Gt2("cx", op.pos[1], op.pos[2]),
      Gt1("rx", op.pos[1]), Gt1("rx", op.pos[2])>>

RZZToCNOT(op) ==
    <<Gt2("cx", op.pos[1], op.pos[2]), Gt1("rz", op.pos[2]), Gt2("cx", op.pos[1], op.pos[2])>>

SToRZ(op) == <<Gt1("rz", op.pos[1])>>

SdgToRZ(op) == <<Gt1("rz", op.pos[1])>>

SWToRYRZ(op) == <<Gt1("rz", op.pos[1]), Gt1("ry", op.pos[1]), Gt1("rz", op.pos[1])>>

SWdgToRYRZ(op) == <<Gt1("rz", op.pos[1]), Gt1("ry", op.pos[1]), Gt1("rz", op.pos[1])>>

SwapToCNOT(op) ==
    <<Gt2("cx", op.pos[1], op.pos[2]), Gt2("cx", op.pos[2], op.pos[1]),
      Gt2("cx", op.pos[1], op.pos[2])>>

SXToRX(op) == <<Gt1("rx", op.pos[1])>>

SXdgToRX(op) == <<Gt1("rx", op.pos[1])>>

SYToRY(op) == <<Gt1("ry", op.pos[1])>>

SYdgToRY(op) == <<Gt1("ry", op.pos[1])>>

TToRZ(op) == <<Gt1("rz", op.pos[1])>>

TdgToRZ(op) == <<Gt1("rz", op.pos[1])>>

ToffoliToCNOT(op) ==
    <<Gt1("h", op.pos[3]), Gt2("cx", op.pos[2], op.pos[3]), Gt1("tdg", op.pos[3]),
      Gt2("cx", op.pos[1], op.pos[3]), Gt1("t", op.pos[3]), Gt2("cx", op.pos[2], op.pos[3]),
      Gt1("t", op.pos[2]), Gt1("tdg", op.pos[3]), Gt2("cx", op.pos[1], op.pos[3]),
      Gt2("cx", op.pos[1], op.pos[2]), Gt1("t", op.pos[3]), Gt1("t", op.pos[1]),
      Gt1("tdg", op.pos[2]), Gt1("h", op.pos[3]), Gt2("cx", op.pos[1], op.pos[2])>>

ToffoliToCNOT8(op) ==
    <<Gt1("h", op.pos[3]), Gt1("t", op.pos[1]), Gt1("t", op.pos[2]), Gt1("t", op.pos[3]),
      Gt2("cx", op.pos[1], op.pos[2]), Gt2("cx", op.pos[2], op.pos[3]), Gt1("t", op.pos[3]),
      Gt2("cx", op.pos[1], op.pos[2]), Gt2("cx", op.pos[2], op.pos[3]),
      Gt2("cx", op.pos[1], op.pos[2]), Gt1("tdg", op.pos[2]), Gt1("tdg", op.pos[3]),
      Gt2("cx", op.pos[2], op.pos[3]), Gt2("cx", op.pos[1], op.pos[2]), Gt1("tdg", op.pos[3]),
      Gt2("cx", op.pos[2], op.pos[3]), Gt1("h", op.pos[3])>>

WToRYRZ(op) == <<Gt1("rz", op.pos[1]), Gt1("ry", op.pos[1])>>

XToRX(op) == <<Gt1("rx", op.pos[1])>>

YToRY(op) == <<Gt1("ry", op.pos[1])>>

ZToRZ(op) == <<Gt1("rz", op.pos[1])>>

CRXToCNOT(op) ==
    <<Gt1("s", op.pos[2]), Gt2("cx", op.pos[1], op.pos[2]), Gt1("ry", op.pos[2]),
      Gt2("cx", op.pos[1], op.pos[2]), Gt1("ry", op.pos[2]), Gt1("sdg", op.pos[2])>>

CRYToCNOT(op) ==
    <<Gt1("ry", op.pos[2]), Gt2("cx", op.pos[1], op.pos[2]), Gt1("ry", op.pos[2]),
      Gt2("cx", op.pos[1], op.pos[2])>>

CRZToCNOT(op) ==
    <<Gt1("rz", op.pos[2]), Gt2("cx", op.pos[1], op.pos[2]), Gt1("rz", op.pos[2]),
      Gt2("cx", op.pos[1], op.pos[2])>>

MCXToCNOT(op) ==
    LET c == Ctrls(op)
        t == Targ(op)
        n == Len(c)
    IN  IF n = 1 THEN <<Gt2("cx", c[1], t)>>
        ELSE IF n = 2 THEN <<Gt3("ccx", c[1], c[2], t)>>
        ELSE <<Gt1("h", t)>> \o GrayLoop(c, t, n, 1, 0) \o <<Gt1("h", t)>>

MCRYToCNOT(op) ==
    LET c == Ctrls(op)
        t == Targ(op)
        n == Len(c)
    IN  IF n = 1 THEN <<Gt2("cy", c[1], t)>>
        ELSE IF n = 2
        THEN <<Gt1("ry", t), Gt1("sdg", t), Gt3("ccx", c[1], c[2], t), Gt1("s", t),
               Gt1("ry", t), Gt1("sdg", t), Gt3("ccx", c[1], c[2], t), Gt1("s", t)>>
        ELSE <<Gt1("ry", t), Gt1("sdg", t), Gt1("h", t)>>
             \o GrayLoop(c, t, n, 1, 0)
             \o <<Gt1("h", t), Gt1("s", t), Gt1("ry", t), Gt1("sdg", t), Gt1("h", t)>>
             \o GrayLoop(c, t, n, 1, Pow2(n) - 1)
             \o <<Gt1("h", t), Gt1("s", t)>>

U3Decompose(op) == <<Gt1("rz", op.pos[1]), Gt1("rx", op.pos[1]), Gt1("rz", op.pos[1])>>

\* rules.__all__, in order, without the four multi-controlled rule classes
\* whose modules are not part of the analysed sources
class_names ==
    <<"CNOTToCP", "CNOTToCZ", "CNOTToISWAP", "CPToCNOT", "CSToCNOT", "CTToCNOT",
      "CYToCNOT", "CZToCNOT", "FredkinToToffoli", "HToRYRZ", "ISWAPToCNOT",
      "PhaseToRZ", "RXXToCNOT", "RYYToCNOT", "RZZToCNOT", "SToRZ", "SdgToRZ",
      "SWToRYRZ", "SWdgToRYRZ", "SwapToCNOT", "SXToRX", "SXdgToRX", "SYToRY",
      "SYdgToRY", "TToRZ", "TdgToRZ", "ToffoliToCNOT", "ToffoliToCNOT8", "WToRYRZ",
      "XToRX", "YToRY", "ZToRZ", "CRXToCNOT", "CRYToCNOT", "CRZToCNOT",
      "MCXToCNOT", "MCRYToCNOT", "U3Decompose">>

\* class_obj().original
RuleOriginal(cls) ==
    CASE cls \in {"CNOTToCP", "CNOTToCZ", "CNOTToISWAP"} -> "cx"
      [] cls = "CPToCNOT" -> "cp"
      [] cls = "CSToCNOT" -> "cs"
      [] cls = "CTToCNOT" -> "ct"
      [] cls = "CYToCNOT" -> "cy"
      [] cls = "CZToCNOT" -> "cz"
      [] cls = "FredkinToToffoli" -> "cswap"
      [] cls = "HToRYRZ" -> "h"
      [] cls = "ISWAPToCNOT" -> "iswap"
      [] cls = "PhaseToRZ" -> "p"
      [] cls = "RXXToCNOT" -> "rxx"
      [] cls = "RYYToCNOT" -> "ryy"
      [] cls = "RZZToCNOT" -> "rzz"
      [] cls = "SToRZ" -> "s"
      [] cls = "SdgToRZ" -> "sdg"
      [] cls = "SWToRYRZ" -> "sw"
      [] cls = "SWdgToRYRZ" -> "swdg"
      [] cls = "SwapToCNOT" -> "swap"
      [] cls = "SXToRX" -> "sx"
      [] cls = "SXdgToRX" -> "sxdg"
      [] cls = "SYToRY" -> "sy"
      [] cls = "SYdgToRY" -> "sydg"
      [] cls = "TToRZ" -> "t"
      [] cls = "TdgToRZ" -> "tdg"
      [] cls \in {"ToffoliToCNOT", "ToffoliToCNOT8"} -> "ccx"
      [] cls = "WToRYRZ" -> "w"
      [] cls = "XToRX" -> "x"
      [] cls = "YToRY" -> "y"
      [] cls = "ZToRZ" -> "z"
      [] cls = "CRXToCNOT" -> "crx"
      [] cls = "CRYToCNOT" -> "cry"
      [] cls = "CRZToCNOT" -> "crz"
      [] cls = "MCXToCNOT" -> "mcx"
      [] cls = "MCRYToCNOT" -> "mcry"
      [] cls = "U3Decompose" -> "u3"

\* class_obj().basis: the gate names the rule declares to produce
RuleBasis(cls) ==
    CASE cls = "CNOTToCP" -> {"h", "cp"}
      [] cls = "CNOTToCZ" -> {"cz", "h"}
      [] cls = "CNOTToISWAP" -> {"rx", "ry", "rz", "iswap"}
      [] cls \in {"CPToCNOT", "CSToCNOT", "CTToCNOT"} -> {"cx", "p"}
      [] cls = "CYToCNOT" -> {"cx", "s", "sdg"}
      [] cls = "CZToCNOT" -> {"cx", "h"}
      [] cls = "FredkinToToffoli" -> {"cx", "ccx"}
      [] cls \in {"HToRYRZ", "SWToRYRZ", "SWdgToRYRZ", "WToRYRZ"} -> {"ry", "rz"}
      [] cls = "ISWAPToCNOT" -> {"s", "h", "cx"}
      [] cls \in {"PhaseToRZ", "SToRZ", "SdgToRZ", "TToRZ", "TdgToRZ", "ZToRZ"} -> {"rz"}
      [] cls = "RXXToCNOT" -> {"cx", "rz", "h"}
      [] cls = "RYYToCNOT" -> {"cx", "rx", "rz"}
      [] cls \in {"RZZToCNOT", "CRZToCNOT"} -> {"cx", "rz"}
      [] cls = "SwapToCNOT" -> {"cx"}
      [] cls \in {"SXToRX", "SXdgToRX", "XToRX"} -> {"rx"}
      [] cls \in {"SYToRY", "SYdgToRY", "YToRY"} -> {"ry"}
      [] cls \in {"ToffoliToCNOT", "ToffoliToCNOT8"} -> {"cx", "h", "t", "tdg"}
      [] cls = "CRXToCNOT" -> {"cx", "s", "sdg", "ry"}
      [] cls = "CRYToCNOT" -> {"cx", "ry"}
      [] cls = "MCXToCNOT" -> {"cx", "h", "cp", "ccx"}
      [] cls = "MCRYToCNOT" -> {"cx", "sdg", "s", "cp", "cy", "ccx", "ry"}
      [] cls = "U3Decompose" -> {"rx", "ry", "rz"}

RuleBody(cls, op) ==
    CASE cls = "CNOTToCP" -> CNOTToCP(op)
      [] cls = "CNOTToCZ" -> CNOTToCZ(op)
      [] cls = "CNOTToISWAP" -> CNOTToISWAP(op)
      [] cls = "CPToCNOT" -> CPToCNOT(op)
      [] cls = "CSToCNOT" -> CSToCNOT(op)
      [] cls = "CTToCNOT" -> CTToCNOT(op)
      [] cls = "CYToCNOT" -> CYToCNOT(op)
      [] cls = "CZToCNOT" -> CZToCNOT(op)
      [] cls = "FredkinToToffoli" -> FredkinToToffoli(op)
      [] cls = "HToRYRZ" -> HToRYRZ(op)
      [] cls = "ISWAPToCNOT" -> ISWAPToCNOT(op)
      [] cls = "PhaseToRZ" -> PhaseToRZ(op)
      [] cls = "RXXToCNOT" -> RXXToCNOT(op)
      [] cls = "RYYToCNOT" -> RYYToCNOT(op)
      [] cls = "RZZToCNOT" -> RZZToCNOT(op)
      [] cls = "SToRZ" -> SToRZ(op)
      [] cls = "SdgToRZ" -> SdgToRZ(op)
      [] cls = "SWToRYRZ" -> SWToRYRZ(op)
      [] cls = "SWdgToRYRZ" -> SWdgToRYRZ(op)
      [] cls = "SwapToCNOT" -> SwapToCNOT(op)
      [] cls = "SXToRX" -> SXToRX(op)
      [] cls = "SXdgToRX" -> SXdgToRX(op)
      [] cls = "SYToRY" -> SYToRY(op)
      [] cls = "SYdgToRY" -> SYdgToRY(op)
      [] cls = "TToRZ" -> TToRZ(op)
      [] cls = "TdgToRZ" -> TdgToRZ(op)
      [] cls = "ToffoliToCNOT" -> ToffoliToCNOT(op)
      [] cls = "ToffoliToCNOT8" -> ToffoliToCNOT8(op)
      [] cls = "WToRYRZ" -> WToRYRZ(op)
      [] cls = "XToRX" -> XToRX(op)
      [] cls = "YToRY" -> YToRY(op)
      [] cls = "ZToRZ" -> ZToRZ(op)
      [] cls = "CRXToCNOT" -> CRXToCNOT(op)
      [] cls = "CRYToCNOT" -> CRYToCNOT(op)
      [] cls = "CRZToCNOT" -> CRZToCNOT(op)
      [] cls = "MCXToCNOT" -> MCXToCNOT(op)
      [] cls = "MCRYToCNOT" -> MCRYToCNOT(op)
      [] cls = "U3Decompose" -> U3Decompose(op)

\* rule_class.run(gate): every rule returns the op unchanged when it is not
\* an instance of the rule's gate class
RuleRun(cls, op) ==
    IF op.name = RuleOriginal(cls) THEN RuleBody(cls, op) ELSE <<op>>

(***************************************************************************)
(* The passes.  A circuit under construction is [st, gates]: st is "ok",   *)
(* "None" (the value left by the 'unitary' branch, which returns nothing)  *)
(* or the name of the exception raised.                                    *)
(***************************************************************************)
gate_run_limit == 8

quantum_element == {"barrier", "delay", "xy", "measure"}

get_length(pos) == Len(pos)

OkCirc(gs) == [st |-> "ok", gates |-> gs]

NoneCirc == [st |-> "None", gates |-> <<>>]

Raised(e) == [st |-> e, gates |-> <<>>]

IsRaised(c) == c.st \notin {"ok", "None"}

\* if new_circuit is None: new_circuit = QuantumCircuit(self.qubits)
FreshIfNone(nc) == IF nc.st = "None" THEN OkCirc(<<>>) ELSE nc

add_gate(nc, gate) == [nc EXCEPT !.gates = Append(@, gate)]

\* Rules_dict as built when rules_library is imported: the classes of
\* class_names in order, later entries replacing earlier ones, CX rules left out
RulesAtImport ==
    LET idx == {i \in 1..Len(class_names) : RuleOriginal(class_names[i]) # "cx"}
        names == {RuleOriginal(class_names[i]) : i \in idx}
    IN  [n \in names |->
            class_names[MaxOf({i \in idx : RuleOriginal(class_names[i]) = n})]]

\* Rules_dict.update(CX_rules[name])
RulesUpdateCX(rd, cls) ==
    [n \in DOMAIN rd \cup {"cx"} |-> IF n = "cx" THEN cls ELSE rd[n]]

\* UnrollToBasis.__init__: the instance's basis_gates and the effect on the
\* global Rules_dict
InitBasisGates(basis_gates) == basis_gates \cup quantum_element

InitRulesDict(rd, basis) ==
    IF "cz" \in basis THEN RulesUpdateCX(rd, "CNOTToCZ")
    ELSE IF "iswap" \in basis THEN RulesUpdateCX(rd, "CNOTToISWAP")
    ELSE IF "cp" \in basis THEN RulesUpdateCX(rd, "CNOTToCP")
    ELSE rd

\* variant of the test below that lets one more level through
depth_exhausted_late(depth) == depth < 0

\* if depth <= 0: raise ...
depth_exhausted(depth) == depth <= 0

RECURSIVE UnrollToBasis_apply_gate_rules(_, _, _, _, _)
RECURSIVE UnrollToBasis_apply_rule(_, _, _, _, _)
UnrollToBasis_apply_gate_rules(gate, nc, depth, basis, rd) ==
    IF IsRaised(nc) THEN nc
    ELSE IF depth_exhausted(depth) THEN Raised("ValueError")
    ELSE IF gate.name \in basis THEN add_gate(FreshIfNone(nc), gate)
    ELSE IF gate.name = "unitary" THEN NoneCirc
    ELSE IF gate.name \notin DOMAIN rd THEN Raised("KeyError")
    ELSE LET cls == rd[gate.name]
             rule == RuleRun(cls, gate)
         IN  IF RuleBasis(cls) \subseteq basis
             THEN [FreshIfNone(nc) EXCEPT !.gates = @ \o rule]
             ELSE UnrollToBasis_apply_rule(rule, FreshIfNone(nc), depth - 1, basis, rd)

\* for gate in rule: new_circuit = self._apply_gate_rules(..., depth)
UnrollToBasis_apply_rule(rule, nc, depth, basis, rd) ==
    IF rule = <<>> THEN nc
    ELSE LET nc1 == UnrollToBasis_apply_gate_rules(Head(rule), nc, depth, basis, rd)
         IN  IF IsRaised(nc1) THEN nc1
             ELSE UnrollToBasis_apply_rule(Tail(rule), nc1, depth, basis, rd)

UnrollToBasis_run(circuit, basis, rd) ==
    UnrollToBasis_apply_rule(circuit, OkCirc(<<>>), gate_run_limit, basis, rd)

\* variant of the test below that keeps every gate
Keep2Q_always(gate) == TRUE

\* (op.name.lower() in self.quantum_element) or (get_length(op.pos) <= 2)
Keep2Q(gate) == gate.name \in quantum_element \/ get_length(gate.pos) <= 2

RECURSIVE UnrollTo2Qubit_apply_gate_rules(_, _, _, _)
RECURSIVE UnrollTo2Qubit_apply_rule(_, _, _, _)
UnrollTo2Qubit_apply_gate_rules(gate, nc, depth, rd) ==
    IF IsRaised(nc) THEN nc
    ELSE IF depth_exhausted(depth) THEN Raised("TypeError")
    ELSE IF Keep2Q(gate) THEN add_gate(FreshIfNone(nc), gate)
    ELSE IF gate.name = "unitary" THEN NoneCirc
    ELSE IF gate.name \notin DOMAIN rd THEN Raised("KeyError")
    ELSE UnrollTo2Qubit_apply_rule(RuleRun(rd[gate.name], gate), FreshIfNone(nc),
                                   depth - 1, rd)

UnrollTo2Qubit_apply_rule(rule, nc, depth, rd) ==
    IF rule = <<>> THEN nc
    ELSE LET nc1 == UnrollTo2Qubit_apply_gate_rules(Head(rule), nc, depth, rd)
         IN  IF IsRaised(nc1) THEN nc1
             ELSE UnrollTo2Qubit_apply_rule(Tail(rule), nc1, depth, rd)

RECURSIVE UnrollTo2Qubit_run_loop(_, _, _)
UnrollTo2Qubit_run_loop(gates, nc, rd) ==
    IF gates = <<>> \/ IsRaised(nc) THEN nc
    ELSE LET op == Head(gates)
             nc1 == IF Keep2Q(op)
                    THEN IF nc.st = "None" THEN Raised("AttributeError")
                         ELSE add_gate(nc, op)
                    ELSE UnrollTo2Qubit_apply_gate_rules(op, nc, gate_run_limit, rd)
         IN  UnrollTo2Qubit_run_loop(Tail(gates), nc1, rd)

UnrollTo2Qubit_run(circuit, rd) == UnrollTo2Qubit_run_loop(circuit, OkCirc(<<>>), rd)

\* The nesting of rule applications a call of _apply_gate_rules reaches: deep
\* is the longest chain of rule applications nested in one another, raised
\* tells whether the call ends by an exception.
NoNesting == [deep |-> 0, raised |-> FALSE]

RaisedAt(n) == [deep |-> n, raised |-> TRUE]

RECURSIVE UnrollToBasis_nesting(_, _, _, _)
RECURSIVE UnrollToBasis_rule_nesting(_, _, _, _, _)
UnrollToBasis_nesting(gate, depth, basis, rd) ==
    IF depth_exhausted(depth) THEN RaisedAt(0)
    ELSE IF gate.name \in basis \/ gate.name = "unitary" THEN NoNesting
    ELSE IF gate.name \notin DOMAIN rd THEN RaisedAt(0)
    ELSE LET cls == rd[gate.name]
         IN  IF RuleBasis(cls) \subseteq basis
             THEN [deep |-> 1, raised |-> FALSE]
             ELSE LET r == UnrollToBasis_rule_nesting(RuleRun(cls, gate),
                                                      depth - 1, basis, rd, 0)
                  IN  [deep |-> 1 + r.deep, raised |-> r.raised]

\* for gate in rule: the deepest nesting among the calls made, deep so far
UnrollToBasis_rule_nesting(rule, depth, basis, rd, deep) ==
    IF rule = <<>> THEN [deep |-> deep, raised |-> FALSE]
    ELSE LET a == UnrollToBasis_nesting(Head(rule), depth, basis, rd)
         IN  IF a.raised THEN RaisedAt(IF a.deep > deep THEN a.deep ELSE deep)
             ELSE IF a.deep > deep
             THEN UnrollToBasis_rule_nesting(Tail(rule), depth, basis, rd, a.deep)
             ELSE UnrollToBasis_rule_nesting(Tail(rule), depth, basis, rd, deep)

RECURSIVE UnrollTo2Qubit_nesting(_, _, _)
RECURSIVE UnrollTo2Qubit_rule_nesting(_, _, _, _)
UnrollTo2Qubit_nesting(gate, depth, rd) ==
    IF depth_exhausted(depth) THEN RaisedAt(0)
    ELSE IF Keep2Q(gate) \/ gate.name = "unitary" THEN NoNesting
    ELSE IF gate.name \notin DOMAIN rd THEN RaisedAt(0)
    ELSE LET r == UnrollTo2Qubit_rule_nesting(RuleRun(rd[gate.name], gate),
                                              depth - 1, rd, 0)
         IN  [deep |-> 1 + r.deep, raised |-> r.raised]

UnrollTo2Qubit_rule_nesting(rule, depth, rd, deep) ==
    IF rule = <<>> THEN [deep |-> deep, raised |-> FALSE]
    ELSE LET a == UnrollTo2Qubit_nesting(Head(rule), depth, rd)
         IN  IF a.raised THEN RaisedAt(IF a.deep > deep THEN a.deep ELSE deep)
             ELSE IF a.deep > deep
             THEN UnrollTo2Qubit_rule_nesting(Tail(rule), depth, rd, a.deep)
             ELSE UnrollTo2Qubit_rule_nesting(Tail(rule), depth, rd, deep)

\* the nesting reached by the gates of a run, gate by gate
RunNesting(i) ==
    IF uRun.pass = "basis"
    THEN UnrollToBasis_nesting(uIn[i], gate_run_limit, uBasis[uRun.inst], Rules_dict)
    ELSE UnrollTo2Qubit_nesting(uIn[i], gate_run_limit, Rules_dict)

(***************************************************************************)
(* Inputs of the unrolling model.                                          *)
(***************************************************************************)
MaxInstances == 2

OneQubitNames ==
    {"x", "y", "z", "h", "s", "sdg", "t", "tdg", "sx", "sxdg", "sy", "sydg", "w",
     "sw", "swdg", "rx", "ry", "rz", "p", "u3", "id", "delay", "unitary"}

TwoQubitNames ==
    {"cx", "cy", "cz", "cs", "ct", "cp", "swap", "iswap", "rxx", "ryy", "rzz",
     "crx", "cry", "crz", "xy"}

ThreeQubitNames == {"ccx", "cswap", "barrier", "unitary"}

InputGates ==
    {Gt1(n, 0) : n \in OneQubitNames}
    \cup {Gt2(n, 0, 1) : n \in TwoQubitNames}
    \cup {Gt3(n, 0, 1, 2) : n \in ThreeQubitNames}
    \cup {Gate(n, [i \in 1..(k + 1) |-> i - 1]) :
             n \in {"mcx", "mcry"}, k \in 1..MaxCtrls}

\* the gate lists of length n over S
RECURSIVE GateLists(_, _)
GateLists(S, n) ==
    IF n = 0 THEN {<<>>}
    ELSE {Append(c, x) : c \in GateLists(S, n - 1), x \in S}

Circuits == UNION {GateLists(InputGates, k) : k \in 1..MaxCircLen}

\* basis_gates arguments: the default of UnrollToBasis, the basis of the
\* transpiler tests, CZ-, iSWAP- and CP-based sets, and a set holding the
\* declared basis of the MCRY rule
BasisChoices ==
    {{"cx", "rx", "ry", "rz", "id"},
     {"cx", "rx", "ry", "rz", "id", "h"},
     {"cz", "rx", "ry", "rz", "id", "h"},
     {"iswap", "rx", "ry", "rz"},
     {"cp", "h", "rx", "ry", "rz"},
     {"cx", "sdg", "s", "cp", "cy", "ccx", "ry"}}

NoRun == [pass |-> "none", inst |-> 0]


\* UnrollToBasis(basis_gates)
NewUnrollToBasis ==
    /\ uRun = NoRun
    /\ Len(uBasis) < MaxInstances
    /\ \E b \in BasisChoices :
          /\ uBasis' = Append(uBasis, InitBasisGates(b))
          /\ Rules_dict' = InitRulesDict(Rules_dict, InitBasisGates(b))
    /\ UNCHANGED <<uIn, uOut, uRun, notUnroll>>

\* instance.run(circuit) of one of the UnrollToBasis instances
UnrollToBasisRun ==
    /\ uRun = NoRun
    /\ \E i \in 1..Len(uBasis), c \in Circuits :
          /\ uIn' = c
          /\ uOut' = UnrollToBasis_run(c, uBasis[i], Rules_dict)
          /\ uRun' = [pass |-> "basis", inst |-> i]
    /\ UNCHANGED <<Rules_dict, uBasis, notUnroll>>

\* UnrollTo2Qubit().run(circuit)
UnrollTo2QubitRun ==
    /\ uRun = NoRun
    /\ \E c \in Circuits :
          /\ uIn' = c
          /\ uOut' = UnrollTo2Qubit_run(c, Rules_dict)
          /\ uRun' = [pass |-> "2qubit", inst |-> 0]
    /\ UNCHANGED <<Rules_dict, uBasis, notUnroll>>

NextUnroll == NewUnrollToBasis \/ UnrollToBasisRun \/ UnrollTo2QubitRun


(***************************************************************************)
(* Conversion between circuits and DAGs (circuit_dag_convert.py).  A gate  *)
(* is a record (name, pos, paras, duration, unit); values are integers,    *)
(* NoneVal stands for an absent attribute.  paras.scalar tells a bare      *)
(* number from a list.  A circuit is (gates, measures), measures being the *)
(* sequence of (qubit, cbit) items of the dict.                            *)
(***************************************************************************)
ConvQubits == 3

NoneVal == -1

NoParas == [scalar |-> FALSE, v |-> <<>>]

CGate(name, pos, paras, duration, unit) ==
    [name |-> name, pos |-> pos, paras |-> paras, duration |-> duration,
     unit |-> unit]

GATE_CLASSES ==
    {"x", "y", "z", "h", "s", "sdg", "t", "tdg", "rx", "ry", "rz", "id", "sx",
     "sxdg", "sy", "sydg", "w", "sw", "swdg", "p", "delay", "barrier", "cx",
     "cp", "swap", "iswap", "rxx", "ryy", "rzz", "cy", "cz", "cs", "ct", "cry",
     "crx", "crz", "xy", "ccx", "cswap", "mcx", "mcy", "mcz", "u3"}

\* x or None
OrNone(x) == IF x = 0 THEN NoneVal ELSE x

\* gate.paras = getattr(gate, 'paras', None) or None, then made a list
NodeParas(paras) ==
    IF paras.v = <<>> \/ (paras.scalar /\ paras.v[1] = 0) THEN <<>> ELSE paras.v

gate_to_node(input_gate, specific_label) ==
    [name |-> input_gate.name,
     pos |-> input_gate.pos,
     paras |-> NodeParas(input_gate.paras),
     duration |-> OrNone(input_gate.duration),
     unit |-> OrNone(input_gate.unit),
     label |-> specific_label]

\* qubit_last_use: the items of the dict in insertion order
qubit_last_use_get(lu, q) ==
    IF \E i \in DOMAIN lu : lu[i][1] = q
    THEN lu[CHOOSE i \in DOMAIN lu : lu[i][1] = q][2]
    ELSE Src

qubit_last_use_set(lu, q, n) ==
    IF \E i \in DOMAIN lu : lu[i][1] = q
    THEN [lu EXCEPT ![CHOOSE i \in DOMAIN lu : lu[i][1] = q] = <<q, n>>]
    ELSE Append(lu, <<q, n>>)

\* for qubit in hashable_gate.pos: add the edge from the last use, update it
RECURSIVE WireNode(_, _, _)
WireNode(st, n, qs) ==
    IF qs = <<>> THEN st
    ELSE LET q == Head(qs)
             e == [u |-> qubit_last_use_get(st.lu, q), v |-> n, q |-> q]
         IN  WireNode([eseq |-> Append(st.eseq, e),
                       lu |-> qubit_last_use_set(st.lu, q, n)], n, Tail(qs))

\* for qubit, last_node in qubit_last_use.items(): edge to the end node
EndEdges(lu) == [i \in DOMAIN lu |-> [u |-> lu[i][2], v |-> Snk, q |-> lu[i][1]]]

\* the keys of a measures dict
MeasureKeys(ms) == [i \in DOMAIN ms |-> ms[i][1]]

\* the loop over the nodes shared by circuit_to_dag and nodelist_to_dag
RECURSIVE WireNodes(_, _, _)
WireNodes(st, nodes, i) ==
    IF i > Len(nodes) THEN st
    ELSE WireNodes(WireNode(st, i, nodes[i].pos), nodes, i + 1)

BuiltDag(order, nodes, st) ==
    LET eseq == st.eseq \o EndEdges(st.lu)
    IN  [order |-> order, nodes |-> nodes, eseq |-> eseq,
         qubits_used |-> {eseq[i].q : i \in DOMAIN eseq}]

\* the measure node has identity 0, the gate nodes 1..n in circuit order
circuit_to_dag(circuit, measure_flag) ==
    LET n == Len(circuit.gates)
        gnodes == [i \in 1..n |-> gate_to_node(circuit.gates[i], i - 1)]
        st1 == WireNodes([eseq |-> <<>>, lu |-> <<>>], gnodes, 1)
        measure_gate == [name |-> "measure", pos |-> circuit.measures,
                         paras |-> <<>>, duration |-> NoneVal,
                         unit |-> NoneVal, label |-> NoneVal]
        st2 == WireNode(st1, 0, MeasureKeys(circuit.measures))
    IN  IF measure_flag
        THEN BuiltDag(<<Src>> \o [i \in 1..n |-> i] \o <<0, Snk>>,
                      [i \in 0..n |-> IF i = 0 THEN measure_gate ELSE gnodes[i]],
                      st2)
        ELSE BuiltDag(<<Src>> \o [i \in 1..n |-> i] \o <<Snk>>,
                      [i \in 1..n |-> gnodes[i]], st1)

nodelist_to_dag(op_nodes) ==
    LET n == Len(op_nodes)
    IN  BuiltDag(<<Src>> \o [i \in 1..n |-> i] \o <<Snk>>,
                 [i \in 1..n |-> op_nodes[i]],
                 WireNodes([eseq |-> <<>>, lu |-> <<>>], op_nodes, 1))

\* G.in_degree(v) of the multigraph
InDegree(G, v) == Cardinality({i \in DOMAIN G.eseq : G.eseq[i].v = v})

\* G.neighbors(u): the successors in the order their first edge was added
RECURSIVE NeighborsFrom(_, _, _, _)
NeighborsFrom(G, u, i, acc) ==
    IF i > Len(G.eseq) THEN acc
    ELSE LET e == G.eseq[i]
         IN  NeighborsFrom(G, u, i + 1,
                IF e.u = u /\ ~(\E j \in DOMAIN acc : acc[j] = e.v)
                THEN Append(acc, e.v) ELSE acc)

Neighbors(G, u) == NeighborsFrom(G, u, 1, <<>>)

\* len(G[u][v])
EdgeCount(G, u, v) ==
    Cardinality({i \in DOMAIN G.eseq : G.eseq[i].u = u /\ G.eseq[i].v = v})

\* for child in G.neighbors(node): lower its in-degree, collect it at zero
RECURSIVE VisitChildren(_, _, _, _)
VisitChildren(G, u, cs, st) ==
    IF cs = <<>> THEN st
    ELSE LET c == Head(cs)
             d == st.indeg[c] - EdgeCount(G, u, c)
         IN  VisitChildren(G, u, Tail(cs),
                [indeg |-> [st.indeg EXCEPT ![c] = d],
                 zero |-> IF d = 0 THEN Append(st.zero, c) ELSE st.zero])

RECURSIVE VisitGeneration(_, _, _)
VisitGeneration(G, gen, st) ==
    IF gen = <<>> THEN st
    ELSE VisitGeneration(G, Tail(gen),
            VisitChildren(G, Head(gen), Neighbors(G, Head(gen)), st))

\* networkx.topological_generations, flattened by topological_sort
RECURSIVE TopoFrom(_, _, _, _)
TopoFrom(G, gen, indeg, out) ==
    IF gen = <<>> THEN out
    ELSE LET st == VisitGeneration(G, gen, [indeg |-> indeg, zero |-> <<>>])
         IN  TopoFrom(G, st.zero, st.indeg, out \o gen)

topological_sort(G) ==
    LET ns == {G.order[i] : i \in DOMAIN G.order}
        indeg == [v \in ns |-> InDegree(G, v)]
    IN  TopoFrom(G, SelectSeq(G.order, LAMBDA v : indeg[v] = 0), indeg, <<>>)

\* number of positional qubit arguments and of parameters of a gate class
ClassQubits(name) ==
    IF name \in {"cx", "cp", "swap", "iswap", "rxx", "ryy", "rzz", "cy", "cz",
                 "cs", "ct", "cry", "crx", "crz", "xy"} THEN 2
    ELSE IF name \in {"ccx", "cswap"} THEN 3
    ELSE 1

ClassParas(name) ==
    IF name \in {"rx", "ry", "rz", "p", "cp", "rxx", "ryy", "rzz", "cry", "crx",
                 "crz"} THEN 1
    ELSE IF name = "u3" THEN 3
    ELSE 0

\* gate_class(*args): the gate a constructor builds from positional
\* arguments; a call without the parameter either uses the default of the
\* class or fails, depending on the signature
Construct(name, args) ==
    LET nq == ClassQubits(name)
        np == ClassParas(name)
        timed == name \in {"delay", "xy"}
        want == nq + np + (IF timed THEN 2 ELSE 0)
        built(ps) == CGate(name, SubSeq(args, 1, nq),
                           [scalar |-> np = 1, v |-> ps],
                           IF timed THEN args[Len(args) - 1] ELSE 0,
                           IF timed THEN args[Len(args)] ELSE 0)
    IN  IF Len(args) = want
        THEN {[st |-> "ok", gate |-> built(SubSeq(args, nq + 1, nq + np))]}
        ELSE IF np > 0 /\ Len(args) = want - np
        THEN {[st |-> "ok", gate |-> built([i \in 1..np |-> 0])],
              [st |-> "TypeError"]}
        ELSE {[st |-> "TypeError"]}

\* the outcomes of node_to_gate: the gate built, and the node afterwards
\* ('args += ...' extends the list node_in_dag.pos itself)
node_to_gate(node) ==
    LET gate_name == node.name
        args1 == node.pos \o node.paras
        args == IF gate_name \in {"delay", "xy"}
                THEN args1 \o <<node.duration, node.unit>> ELSE args1
        after == [node EXCEPT !.pos = args]
    IN  IF gate_name \notin GATE_CLASSES
        THEN {[st |-> "ValueError", node |-> node]}
        ELSE IF gate_name = "barrier"
        THEN {[st |-> "ok", node |-> node,
               gate |-> CGate("barrier", node.pos, NoParas, 0, 0)]}
        ELSE IF gate_name \in {"mcx", "mcy", "mcz"}
        THEN {[st |-> "ok", node |-> after,
               gate |-> CGate(gate_name, args, NoParas, 0, 0)]}
        ELSE {IF r.st = "ok"
              THEN [st |-> "ok", node |-> after, gate |-> r.gate]
              ELSE [st |-> r.st, node |-> after] : r \in Construct(gate_name, args)}

\* the loop of dag_to_circuit over the topological order; acc holds the
\* circuit built so far and the nodes of the DAG
RECURSIVE dag_to_circuit_loop(_, _)
dag_to_circuit_loop(order, acc) ==
    IF order = <<>> THEN {acc}
    ELSE LET n == Head(order)
         IN  IF n \in {Src, Snk} THEN dag_to_circuit_loop(Tail(order), acc)
             ELSE IF acc.nodes[n].name = "measure"
             THEN dag_to_circuit_loop(Tail(order),
                     [acc EXCEPT !.measures = acc.nodes[n].pos])
             ELSE UNION {IF r.st = "ok"
                         THEN dag_to_circuit_loop(Tail(order),
                                 [acc EXCEPT !.gates = Append(@, r.gate),
                                             !.nodes[n] = r.node])
                         ELSE {[acc EXCEPT !.st = r.st, !.nodes[n] = r.node]}
                         : r \in node_to_gate(acc.nodes[n])}

dag_to_circuit(dep_graph) ==
    dag_to_circuit_loop(topological_sort(dep_graph),
        [st |-> "ok", gates |-> <<>>, measures |-> <<>>, nodes |-> dep_graph.nodes])

(***************************************************************************)
(* Inputs and operations of the conversion model.                          *)
(***************************************************************************)
ConvGates ==
    {CGate("h", <<q>>, NoParas, 0, 0) : q \in 0..(ConvQubits - 1)}
    \cup {CGate("rx", <<q>>, [scalar |-> TRUE, v |-> <<t>>], 0, 0) :
             q \in {0}, t \in {0, 1}}
    \cup {CGate("cx", <<a, a + 1>>, NoParas, 0, 0) : a \in 0..(ConvQubits - 2)}
    \cup {CGate("cx", <<1, 0>>, NoParas, 0, 0),
          CGate("barrier", <<0, 1>>, NoParas, 0, 0),
          CGate("delay", <<1>>, NoParas, 1, 1),
          CGate("mcx", <<0, 1, 2>>, NoParas, 0, 0),
          CGate("mcry", <<0, 1, 2>>, [scalar |-> TRUE, v |-> <<1>>], 0, 0)}

ConvMeasures == {<<>>, <<<<0, 0>>>>, <<<<1, 0>>, <<0, 1>>>>}

ConvCircuits ==
    {[gates |-> gs, measures |-> ms] :
        gs \in UNION {GateLists(ConvGates, k) : k \in 0..MaxNodes},
        ms \in ConvMeasures}

NoDag == [order |-> <<>>, nodes |-> <<>>, eseq |-> <<>>, qubits_used |-> {}]

NoCircuit == [gates |-> <<>>, measures |-> <<>>]

\* dag = circuit_to_dag(circuit, measure_flag)
CircuitToDag ==
    /\ cRun = "none"
    /\ \E c \in ConvCircuits, measure_flag \in BOOLEAN :
          /\ cIn' = c
          /\ cDag' = circuit_to_dag(c, measure_flag)
    /\ cRun' = "circuit_to_dag"
    /\ UNCHANGED <<cOut, notConv>>

\* dag = nodelist_to_dag([gate_to_node(gate, i) for i, gate in enumerate(gates)])
NodelistToDag ==
    /\ cRun = "none"
    /\ \E c \in ConvCircuits :
          /\ cIn' = c
          /\ cDag' = nodelist_to_dag(
                        [i \in 1..Len(c.gates) |-> gate_to_node(c.gates[i], i - 1)])
    /\ cRun' = "nodelist_to_dag"
    /\ UNCHANGED <<cOut, notConv>>

\* circuit = dag_to_circuit(dag, qubits), and the same call made once more on
\* the same DAG
DagToCircuit ==
    /\ cRun \in {"circuit_to_dag", "nodelist_to_dag", "dag_to_circuit"}
    /\ \E r \in dag_to_circuit(cDag) :
          /\ cOut' = [st |-> r.st, gates |-> r.gates, measures |-> r.measures]
          /\ cDag' = [cDag EXCEPT !.nodes = r.nodes]
    /\ cRun' = IF cRun = "dag_to_circuit" THEN "dag_to_circuit again"
               ELSE "dag_to_circuit"
    /\ UNCHANGED <<cIn, notConv>>

(***************************************************************************)
(* SABRE routing and layout (sabre_routing.py, sabre_layout.py).           *)
(* A coupling graph is (num_qubits, edges), edges being unordered pairs; a *)
(* layout is its v2p map, p2v being the inverse.  Decay factors are kept   *)
(* as the number k of decay_delta steps, the factor being 1 + k/100.       *)
(***************************************************************************)
MaxSwaps == 3

\* CouplingGraph(coupling_list) of the line 0 - 1 - ... - n-1 made
\* bidirectional: fs[i] is the fidelity in percent of the edge (i-1, i), and
\* edge_dict has it in both directions
LineWith(n, fs) ==
    [num_qubits |-> n, edges |-> {{i, i + 1} : i \in 0..(n - 2)},
     edge_dict |-> [e \in {<<i, i + 1>> : i \in 0..(n - 2)}
                            \cup {<<i + 1, i>> : i \in 0..(n - 2)} |->
                      IF e[1] < e[2] THEN fs[e[1] + 1] ELSE fs[e[2] + 1]]]

Line(n) == LineWith(n, [i \in 1..(n - 1) |-> 100])

CouplingGraphs == {Line(3), Line(4)}

\* self.coupling_graph.graph.has_edge(p0, p1)
has_edge(cg, p0, p1) == p0 # p1 /\ {p0, p1} \in cg.edges

\* self.coupling_graph.neighbors(physical)
coupling_neighbors(cg, p) ==
    {x \in 0..(cg.num_qubits - 1) : has_edge(cg, p, x)}

RECURSIVE DistFrom(_, _, _, _)
DistFrom(cg, S, b, d) ==
    IF b \in S THEN d
    ELSE DistFrom(cg, S \cup UNION {coupling_neighbors(cg, p) : p \in S}, b, d + 1)

\* self.coupling_graph.distance_matrix[a, b] of a connected graph
distance_matrix(cg, a, b) == DistFrom(cg, {a}, b, 0)

\* Layout.generate_random_layout(nv, np): the injections of 0..nv-1
generate_random_layout(nv, np) ==
    {f \in [0..(nv - 1) -> 0..(np - 1)] :
        \A a, b \in 0..(nv - 1) : a # b => f[a] # f[b]}

\* layout.p2v has the physical qubit p
InP2v(layout, p) == \E v \in DOMAIN layout : layout[v] = p

p2v(layout, p) == CHOOSE v \in DOMAIN layout : layout[v] = p

\* Layout.swap(a, b)
layout_swap(layout, a, b) ==
    [layout EXCEPT ![a] = layout[b], ![b] = layout[a]]

\* the qubits of a node: the keys of the dict of a measure node
NodeQubits(node) ==
    IF node.name = "measure" THEN MeasureKeys(node.pos) ELSE node.pos

RECURSIVE ConcatEdges(_, _, _)
ConcatEdges(G, u, vs) ==
    IF vs = <<>> THEN <<>>
    ELSE SelectSeq(G.eseq, LAMBDA e : e.u = u /\ e.v = Head(vs))
            \o ConcatEdges(G, u, Tail(vs))

\* dag.out_edges(node): grouped by successor, parallel edges together
out_edges_of(G, u) == ConcatEdges(G, u, Neighbors(G, u))

RECURSIVE OutEdgesFrom(_, _)
OutEdgesFrom(G, order) ==
    IF order = <<>> THEN <<>>
    ELSE out_edges_of(G, Head(order)) \o OutEdgesFrom(G, Tail(order))

\* dag.out_edges()
out_edges(G) == OutEdgesFrom(G, G.order)

\* SabreRouting._dag_successors: one entry per out-edge
dag_successors(G, n) ==
    LET es == out_edges_of(G, n) IN [i \in DOMAIN es |-> es[i].v]

RECURSIVE FirstSeen(_, _, _)
FirstSeen(es, i, acc) ==
    IF i > Len(es) THEN acc
    ELSE LET a1 == IF \E j \in DOMAIN acc : acc[j] = es[i].u
                   THEN acc ELSE Append(acc, es[i].u)
             a2 == IF \E j \in DOMAIN a1 : a1[j] = es[i].v
                   THEN a1 ELSE Append(a1, es[i].v)
         IN  FirstSeen(es, i + 1, a2)

\* add_weighted_edges_from of networkx, given the triples (u, v, data) of
\* dag.edges(data=True): the third item of a triple becomes the attribute
\* 'weight' of the new edge, which has no other attribute
add_weighted_edges_from(es) ==
    [i \in DOMAIN es |-> [u |-> es[i].u, v |-> es[i].v, weight |-> [q |-> es[i].q]]]

\* copy_dag: the edges are added in the order dag.edges yields them, the
\* nodes come with the edges, the attributes are copied
copy_dag(G) ==
    LET es == out_edges(G)
    IN  [order |-> FirstSeen(es, 1, <<>>), nodes |-> G.nodes,
         eseq |-> add_weighted_edges_from(es), qubits_used |-> G.qubits_used]

\* edge[2]['label'] can be read: the data of the edge has the key 'label'
HasLabel(e) == "q" \in DOMAIN e

\* DAGCircuit.node_qubits_predecessors on a converted DAG: one entry (qubit,
\* predecessor) per in-edge, KeyError when an in-edge has no 'label'
qubits_predecessors(G, n) ==
    LET ins == {i \in DOMAIN G.eseq : G.eseq[i].v = n}
    IN  IF \E i \in ins : ~HasLabel(G.eseq[i]) THEN [st |-> "KeyError", dict |-> {}]
        ELSE [st |-> "ok", dict |-> {<<G.eseq[i].q, G.eseq[i].u>> : i \in ins}]

\* DAGCircuit.node_qubits_successors on a converted DAG
qubits_successors(G, n) ==
    LET outs == {i \in DOMAIN G.eseq : G.eseq[i].u = n}
    IN  IF \E i \in outs : ~HasLabel(G.eseq[i]) THEN [st |-> "KeyError", dict |-> {}]
        ELSE [st |-> "ok", dict |-> {<<G.eseq[i].q, G.eseq[i].v>> : i \in outs}]

\* dag_copy = copy_dag(dag)
CopyDag ==
    /\ cRun \in {"circuit_to_dag", "nodelist_to_dag"}
    /\ cDag' = copy_dag(cDag)
    /\ cRun' = "copy_dag"
    /\ UNCHANGED <<cIn, cOut, notConv>>

NextConv == CircuitToDag \/ NodelistToDag \/ DagToCircuit \/ CopyDag

\* dag.remove_node(float('inf'))
remove_end_node(G) ==
    [G EXCEPT !.order = SelectSeq(@, LAMBDA n : n # Snk),
              !.eseq = SelectSeq(@, LAMBDA e : e.v # Snk)]

\* predecessor and successor of node n on wire q
WirePred(G, n, q) ==
    G.eseq[CHOOSE i \in DOMAIN G.eseq : G.eseq[i].v = n /\ G.eseq[i].q = q].u

WireSucc(G, n, q) ==
    G.eseq[CHOOSE i \in DOMAIN G.eseq : G.eseq[i].u = n /\ G.eseq[i].q = q].v

\* dag.remove_measure_nodes(): remove_instruction_node of the measure node,
\* which joins its neighbours on every wire and deletes the node
remove_measure_nodes(G) ==
    IF ~(\E i \in DOMAIN G.order : G.order[i] = 0) THEN G
    ELSE LET qs == MeasureKeys(G.nodes[0].pos)
             bypass == [i \in DOMAIN qs |->
                          [u |-> WirePred(G, 0, qs[i]), v |-> WireSucc(G, 0, qs[i]),
                           q |-> qs[i]]]
         IN  [G EXCEPT !.order = SelectSeq(@, LAMBDA n : n # 0),
                       !.eseq = SelectSeq(@, LAMBDA e : e.u # 0 /\ e.v # 0)
                                   \o bypass]

\* dag.remove_measure_nodes() with its outcome: remove_instruction_node asks
\* for the predecessors and successors of the measure node by qubit
try_remove_measure_nodes(G) ==
    IF ~(\E i \in DOMAIN G.order : G.order[i] = 0) THEN [st |-> "ok", dag |-> G]
    ELSE IF qubits_predecessors(G, 0).st # "ok" \/ qubits_successors(G, 0).st # "ok"
    THEN [st |-> "KeyError", dag |-> G]
    ELSE [st |-> "ok", dag |-> remove_measure_nodes(G)]

\* reverse_circuit(circuit)
reverse_circuit(circuit) ==
    [circuit EXCEPT !.gates = [i \in DOMAIN @ |-> @[Len(@) + 1 - i]]]

\* the loop over dag.out_edges() that fills pre_executed_counts and the
\* first front layer; it stops at the first edge that does not leave -1
RECURSIVE InitFront(_, _, _, _)
InitFront(G, es, i, st) ==
    IF i > Len(es) \/ es[i].u # Src THEN st
    ELSE LET n == es[i].v
             c == st.cnt[n] + 1
             node == G.nodes[n]
         IN  InitFront(G, es, i + 1,
                [cnt |-> [st.cnt EXCEPT ![n] = c],
                 fl |-> IF node.name \notin {"barrier", "measure"}
                           /\ (c = 2 \/ Len(node.pos) = 1)
                        THEN Append(st.fl, n) ELSE st.fl])

ZeroCounts == [n \in 0..MaxNodes |-> 0]

\* round(n / 2) as Python rounds (ties to even)
RoundHalf(n) ==
    IF n % 2 = 0 THEN n \div 2
    ELSE IF ((n - 1) \div 2) % 2 = 0 THEN (n - 1) \div 2 ELSE (n + 1) \div 2

\* len(node.pos) == 2 and node.name not in [barrier, xy, measure]
IsTwoQubitGate(node) ==
    Len(node.pos) = 2 /\ node.name \notin {"barrier", "xy", "measure"}

InLayout(layout, qs) == \A i \in DOMAIN qs : qs[i] \in DOMAIN layout

\* variant of the test below without the look-up in the coupling graph
Executable_any(cg, layout, node) == TRUE

\* a node of the front layer goes to execute_gate_list
Executable(cg, layout, node) ==
    IsTwoQubitGate(node)
        => has_edge(cg, layout[node.pos[1]], layout[node.pos[2]])

\* SabreRouting._apply_gate: the node appended to mapped_dag
apply_gate(mapped, modify_dag, node, id, layout) ==
    IF ~modify_dag THEN mapped
    ELSE Append(mapped,
            [name |-> node.name, id |-> id, vpos |-> node.pos, via |-> layout,
             pos |-> IF node.name = "measure"
                     THEN [i \in DOMAIN node.pos |->
                             <<layout[node.pos[i][1]], node.pos[i][2]>>]
                     ELSE [i \in DOMAIN node.pos |-> layout[node.pos[i]]]])

\* front_layer.remove(node)
RemoveFirst(s, x) ==
    LET i == CHOOSE j \in DOMAIN s : s[j] = x /\ \A k \in 1..(j - 1) : s[k] # x
    IN  SubSeq(s, 1, i - 1) \o SubSeq(s, i + 1, Len(s))

\* for successor in self._dag_successors(dag, node)
RECURSIVE CountSuccessors(_, _, _, _)
CountSuccessors(G, node, succ, st) ==
    IF succ = <<>> THEN st
    ELSE LET s == Head(succ)
             c == st.cnt[s] + (IF G.nodes[s].name = "measure"
                               THEN Len(node.pos) ELSE 1)
         IN  CountSuccessors(G, node, Tail(succ),
                [st EXCEPT !.cnt[s] = c,
                           !.fl = IF c = Len(G.nodes[s].pos)
                                  THEN Append(@, s) ELSE @])

\* for node in execute_gate_list: apply it, take it from the front layer,
\* count it at its successors
RECURSIVE ExecuteList(_, _, _, _, _)
ExecuteList(G, list, modify_dag, layout, st) ==
    IF list = <<>> \/ st.err THEN st
    ELSE LET n == Head(list)
             node == G.nodes[n]
         IN  IF modify_dag /\ ~InLayout(layout, NodeQubits(node))
             THEN [st EXCEPT !.err = TRUE]
             ELSE ExecuteList(G, Tail(list), modify_dag, layout,
                     CountSuccessors(G, node, dag_successors(G, n),
                        [st EXCEPT !.mapped = apply_gate(@, modify_dag, node, n, layout),
                                   !.fl = RemoveFirst(@, n)]))

RECURSIVE Dedupe(_, _)
Dedupe(s, acc) ==
    IF s = <<>> THEN acc
    ELSE Dedupe(Tail(s), IF \E j \in DOMAIN acc : acc[j] = Head(s)
                         THEN acc ELSE Append(acc, Head(s)))

\* SabreRouting._calc_extended_set; list(set(...)) is taken to keep the
\* order of first occurrence
RECURSIVE calc_extended_set(_, _, _, _)
calc_extended_set(G, queue, ext, size) ==
    IF queue = <<>> \/ Cardinality(ext) >= size THEN ext
    ELSE LET succ == SelectSeq(dag_successors(G, Head(queue)),
                        LAMBDA s : G.nodes[s].name \notin {"barrier", "measure"})
         IN  calc_extended_set(G, Dedupe(Tail(queue) \o succ, <<>>),
                ext \cup {succ[i] : i \in {j \in DOMAIN succ :
                                             Len(G.nodes[succ[j]].pos) = 2}},
                size)

\* SabreRouting._obtain_swaps: a candidate needs p2v of every neighbour
SwapsDefined(G, cg, layout, front) ==
    \A i \in DOMAIN front : \A j \in DOMAIN G.nodes[front[i]].pos :
        \A nb \in coupling_neighbors(cg, layout[G.nodes[front[i]].pos[j]]) :
            InP2v(layout, nb)

obtain_swaps(G, cg, layout, front) ==
    UNION {UNION {{LET w == p2v(layout, nb)
                       v == G.nodes[front[i]].pos[j]
                   IN  IF v < w THEN <<v, w>> ELSE <<w, v>> :
                   nb \in coupling_neighbors(cg, layout[G.nodes[front[i]].pos[j]])} :
              j \in DOMAIN G.nodes[front[i]].pos} : i \in DOMAIN front}

\* SabreRouting._compute_distance_cost
RECURSIVE compute_distance_cost(_, _, _, _)
compute_distance_cost(G, cg, layer, layout) ==
    IF layer = {} THEN 0
    ELSE LET n == CHOOSE x \in layer : TRUE
         IN  distance_matrix(cg, layout[G.nodes[n].pos[1]], layout[G.nodes[n].pos[2]])
                + compute_distance_cost(G, cg, layer \ {n}, layout)

\* SabreRouting._score_heuristic for 'distance', times 200 * |front| * |ext|
score_heuristic(G, cg, front, ext, layout, decay, swap) ==
    LET trial == layout_swap(layout, swap[1], swap[2])
        fset == {front[i] : i \in DOMAIN front}
        ne == IF ext = {} THEN 1 ELSE Cardinality(ext)
        kmax == IF decay[swap[1]] > decay[swap[2]]
                THEN decay[swap[1]] ELSE decay[swap[2]]
    IN  (2 * compute_distance_cost(G, cg, fset, trial) * ne
            + compute_distance_cost(G, cg, ext, trial) * Len(front)) * (100 + kmax)

\* SabreRouting._get_best_swap for 'distance': the swaps of least score
best_swaps(G, cg, front, ext, layout, decay, cands) ==
    {c \in cands : \A d \in cands :
        score_heuristic(G, cg, front, ext, layout, decay, c)
            <= score_heuristic(G, cg, front, ext, layout, decay, d)}

(***************************************************************************)
(* The heuristics 'fidelity' and 'mixture'.  Fidelities are kept in        *)
(* percent and are powers of 0.9, so that their logarithms are whole       *)
(* multiples of ln(10/9): np.log reads 0, -1, -2 for 100, 90, 81.  A       *)
(* fidelity score is kept times 800 * len(edge_dict), which makes it a     *)
(* whole number; qubits_decay[q] is 1 + rDecay[q] * decay_delta.           *)
(***************************************************************************)
Unscored == -100000

\* np.log(f) in units of ln(10/9)
np_log(f) == CASE f = 100 -> 0 [] f = 90 -> -1 [] f = 81 -> -2

\* the best sum of np.log(f) over the paths from a to b of at most k edges
RECURSIVE BestPath(_, _, _, _)
BestPath(cg, a, b, k) ==
    IF a = b THEN 0
    ELSE IF k = 0 THEN Unscored
    ELSE LET via == {np_log(cg.edge_dict[<<a, x>>]) + BestPath(cg, x, b, k - 1) :
                        x \in coupling_neighbors(cg, a)}
         IN  CHOOSE m \in via : \A o \in via : o <= m

\* self.coupling_graph.path_fidelity[(a, b)]
path_fidelity(cg, a, b) == BestPath(cg, a, b, cg.num_qubits - 1)

\* SabreRouting._compute_fidelity_cost, times 2
RECURSIVE compute_fidelity_cost(_, _, _, _)
compute_fidelity_cost(G, cg, layer, layout) ==
    IF layer = {} THEN 0
    ELSE LET n == CHOOSE x \in layer : TRUE
             p1 == layout[G.nodes[n].pos[1]]
             p2 == layout[G.nodes[n].pos[2]]
         IN  path_fidelity(cg, p1, p2) + path_fidelity(cg, p2, p1)
                + compute_fidelity_cost(G, cg, layer \ {n}, layout)

\* SabreRouting._swap_score
swap_score(cg, p) ==
    LET f01 == np_log(cg.edge_dict[<<p[1], p[2]>>])
        f10 == np_log(cg.edge_dict[<<p[2], p[1]>>])
        min_f == IF f01 < f10 THEN f01 ELSE f10
        max_f == IF f01 < f10 THEN f10 ELSE f01
    IN  2 * max_f + min_f

RECURSIVE SumOver(_, _)
SumOver(f, S) ==
    IF S = {} THEN 0
    ELSE LET x == CHOOSE y \in S : TRUE IN f[x] + SumOver(f, S \ {x})

\* decay_delta times 100 * len(edge_dict): 1 - the mean fidelity under
\* 'fidelity', 0.01 otherwise
decay_delta(cg, heuristic) ==
    IF heuristic = "fidelity"
    THEN SumOver([e \in DOMAIN cg.edge_dict |-> 100 - cg.edge_dict[e]],
                 DOMAIN cg.edge_dict)
    ELSE Cardinality(DOMAIN cg.edge_dict)

ScoreScale(cg) == 800 * Cardinality(DOMAIN cg.edge_dict)

\* swap_cost + self._score_heuristic('fidelity', ...), times ScoreScale
fidelity_score(G, cg, heuristic, front, ext, layout, decay, swap) ==
    LET trial == layout_swap(layout, swap[1], swap[2])
        fset == {front[i] : i \in DOMAIN front}
        ne == Cardinality(DOMAIN cg.edge_dict)
    IN  ScoreScale(cg) * swap_score(cg, <<layout[swap[1]], layout[swap[2]]>>)
            + (200 * ne + (decay[swap[1]] + decay[swap[2]]) * decay_delta(cg, heuristic))
                 * (2 * compute_fidelity_cost(G, cg, fset, trial)
                       + compute_fidelity_cost(G, cg, ext, trial))

\* tuple(sorted(physical_swap_qubits)) not in unavailable_2qubits
Available(layout, unavailable_2qubits, swap) ==
    {layout[swap[1]], layout[swap[2]]} \notin unavailable_2qubits

\* the orders in which a set may be iterated
Orders(S) ==
    {o \in [1..Cardinality(S) -> S] : \A i, j \in DOMAIN o : i # j => o[i] # o[j]}

\* 'mixture', the loop over the tied swaps: max_score starts at 0 and a swap
\* is taken when max_score > score
RECURSIVE TieBreak(_, _, _, _, _)
TieBreak(scores, scored, order, max_score, best_swap) ==
    IF order = <<>> THEN best_swap
    ELSE LET c == Head(order)
         IN  IF c \in scored /\ max_score > scores[c]
             THEN TieBreak(scores, scored, Tail(order), scores[c], c)
             ELSE TieBreak(scores, scored, Tail(order), max_score, best_swap)

\* SabreRouting._get_best_swap: the swaps the call may return, over the
\* outcomes of choice() and the orders of the dict of candidates
get_best_swap(G, cg, heuristic, front, ext, layout, decay, unavailable_2qubits, cands) ==
    IF heuristic = "fidelity"
    THEN LET swap_scores ==
                [c \in cands |->
                    IF Available(layout, unavailable_2qubits, c)
                    THEN fidelity_score(G, cg, heuristic, front, ext, layout, decay, c)
                    ELSE Unscored * ScoreScale(cg)]
         IN  {c \in cands : \A d \in cands : swap_scores[d] <= swap_scores[c]}
    ELSE IF heuristic = "distance"
    THEN best_swaps(G, cg, front, ext, layout, decay, cands)
    ELSE LET tied == best_swaps(G, cg, front, ext, layout, decay, cands)
             scored == {c \in tied : Available(layout, unavailable_2qubits, c)}
             scores ==
                [c \in scored |->
                    fidelity_score(G, cg, heuristic, front, ext, layout, decay, c)]
         IN  IF Cardinality(tied) = 1 THEN tied
             ELSE {TieBreak(scores, scored, o, 0, o[1]) : o \in Orders(tied)}

(***************************************************************************)
(* Inputs and steps of the routing model.  A run of SabreRouting.run is    *)
(* followed through the iterations of its main loop; SabreLayout.run       *)
(* drives 2 * max_iterations + 1 such runs.                                *)
(***************************************************************************)
MaxIterations == 1

RouteGates ==
    {CGate("h", <<0>>, NoParas, 0, 0),
     CGate("cx", <<0, 1>>, NoParas, 0, 0),
     CGate("cx", <<1, 2>>, NoParas, 0, 0),
     CGate("cx", <<0, 2>>, NoParas, 0, 0),
     CGate("barrier", <<0, 1>>, NoParas, 0, 0)}

RouteCircuits ==
    {[gates |-> gs, measures |-> ms] :
        gs \in UNION {GateLists(RouteGates, k) : k \in 0..MaxNodes},
        ms \in ConvMeasures}

\* the heuristics of SabreRouting
Heuristics == {"distance", "fidelity", "mixture"}

\* lines of four and five qubits with edge fidelities 0.9 and 0.81
HeurGraphs == {LineWith(4, <<90, 81, 81>>), LineWith(5, <<90, 90, 90, 81>>)}

HeurGates ==
    {CGate("cx", <<0, 2>>, NoParas, 0, 0),
     CGate("cx", <<0, 3>>, NoParas, 0, 0),
     CGate("cx", <<1, 3>>, NoParas, 0, 0),
     CGate("cx", <<1, 4>>, NoParas, 0, 0),
     CGate("cx", <<2, 3>>, NoParas, 0, 0)}

\* the one-qubit gates that close a circuit: an h on every qubit below n that
\* gs leaves unused, in increasing order, as far as MaxNodes gates allow
closing_gates(gs, n) ==
    LET free == SelectSeq([i \in 1..n |-> i - 1],
                          LAMBDA q : \A i \in DOMAIN gs : \A j \in DOMAIN gs[i].pos :
                                        gs[i].pos[j] # q)
        room == MaxNodes - Len(gs)
    IN  [i \in 1..(IF Len(free) < room THEN Len(free) ELSE room) |->
            CGate("h", <<free[i]>>, NoParas, 0, 0)]

\* one or two CNOTs followed by one-qubit gates on the qubits they leave
\* unused, so that the circuit uses as many qubits of the coupling graph as
\* its length allows
HeurCircuits(n) ==
    {[gates |-> gs \o closing_gates(gs, n), measures |-> <<>>] :
        gs \in UNION {GateLists({gt \in HeurGates : \A i \in DOMAIN gt.pos :
                                                    gt.pos[i] < n}, k) :
                         k \in 1..(MaxNodes - 1)}}

NoOut == [st |-> "none", gates |-> <<>>, measures |-> <<>>]

NoLayout == <<>>

NoPair == [cur |-> NoDag, other |-> NoDag]

\* the instruction nodes of a DAG as they stand, in node order
DagNodes(G) ==
    LET ns == SelectSeq(G.order, LAMBDA n : n \notin {Src, Snk})
    IN  [i \in DOMAIN ns |->
            [name |-> G.nodes[ns[i]].name, id |-> ns[i],
             vpos |-> G.nodes[ns[i]].pos,
             via |-> [q \in G.qubits_used |-> q],
             pos |-> G.nodes[ns[i]].pos]]

\* the Model as the passes use it: its layouts and datadict['add_swap_count']
\* (NoLayout and NoneVal where nothing is set)
NoModel ==
    [initial_layout |-> NoLayout, final_layout |-> NoLayout,
     add_swap_count |-> NoneVal]

NoGiven == [arg |-> NoLayout, model |-> NoModel]

trivial_layout(nv) == [q \in 0..(nv - 1) |-> q]

\* the virtual qubits from the last physical qubit downwards
reversed_layout(nv, np) == [q \in 0..(nv - 1) |-> np - 1 - q]

\* what a pass is given: its initial-layout argument and the Model set by
\* set_model, which is fresh, holds an initial layout, or was used by an
\* earlier compilation that inserted one swap
PassInputs(nv, np) ==
    {[arg |-> NoLayout, model |-> NoModel],
     [arg |-> NoLayout,
      model |-> [NoModel EXCEPT !.initial_layout = trivial_layout(nv)]],
     [arg |-> NoLayout,
      model |-> [initial_layout |-> trivial_layout(nv),
                 final_layout |-> trivial_layout(nv), add_swap_count |-> 1]],
     [arg |-> reversed_layout(nv, np), model |-> NoModel]}

\* SabreRouting.run, the choice of the layout the run starts from
routing_initial_layouts(initial_layout, m, nv, np) ==
    IF initial_layout # NoLayout THEN {initial_layout}
    ELSE IF m.initial_layout # NoLayout THEN {m.initial_layout}
    ELSE generate_random_layout(nv, np)

\* SabreRouting.run, the end of the run: Update model data
routing_update_model(m, current_layout, add_swap_count) ==
    [m EXCEPT !.final_layout = current_layout,
              !.add_swap_count = add_swap_count]

\* SabreRouting.run up to the main loop, on the DAG the run works on
StartLoop(G, layout, modify_dag) ==
    LET G1 == IF \E i \in DOMAIN G.order : G.order[i] = Snk
              THEN remove_end_node(G) ELSE G
        st == InitFront(G1, out_edges(G1), 1, [cnt |-> ZeroCounts, fl |-> <<>>])
    IN  /\ rDag' = G1
        /\ rFront' = st.fl
        /\ rCount' = st.cnt
        /\ rLayout' = layout
        /\ rDecay' = [q \in G.qubits_used |-> 0]
        /\ rIter' = 0
        /\ rSwaps' = 0
        /\ rMapped' = <<>>
        /\ rUnavail' = {}
        /\ rLastSwap' = {}
        /\ rApply' = modify_dag
        /\ rPc' = "loop"
        /\ rOut' = NoOut

\* the run ends: by a return or by an exception
Stop(pc, out) ==
    /\ rPc' = pc
    /\ rOut' = out
    /\ UNCHANGED <<rDag, rFront, rCount, rLayout, rDecay, rIter, rSwaps, rMapped,
                   rUnavail, rLastSwap, rApply>>

Raise(e) == Stop("raised", [st |-> e, gates |-> <<>>, measures |-> <<>>])

\* SabreRouting(heuristic=..., modify_dag=...).run(circuit) up to the main
\* loop, the pass being given one of `inputs`
RoutingRun(circ, cg, heuristic, modify_dag, inputs) ==
          LET dag == circuit_to_dag(circ, TRUE)
              nv == Cardinality(dag.qubits_used)
          IN  \E given \in inputs :
              /\ rIn' = circ
              /\ rCg' = cg
              /\ rHeur' = heuristic
              /\ rMode' = "routing"
              /\ rPasses' = 0
              /\ rAlt' = NoPair
              /\ rGiven' = given
              /\ IF nv = 1
                 THEN /\ rPc' = "returned"
                      /\ rOut' = [st |-> "ok", gates |-> DagNodes(dag),
                                  measures |-> <<>>]
                      /\ rDag' = dag
                      /\ rApply' = modify_dag
                      /\ model' = given.model
                      /\ UNCHANGED <<rFront, rCount, rLayout, rDecay, rIter,
                                     rSwaps, rMapped, rUnavail, rLastSwap>>
                 ELSE IF nv > cg.num_qubits
                 THEN /\ rPc' = "raised"
                      /\ rOut' = [st |-> "ValueError", gates |-> <<>>,
                                  measures |-> <<>>]
                      /\ rDag' = dag
                      /\ rApply' = modify_dag
                      /\ model' = given.model
                      /\ UNCHANGED <<rFront, rCount, rLayout, rDecay, rIter,
                                     rSwaps, rMapped, rUnavail, rLastSwap>>
                 ELSE \E layout \in routing_initial_layouts(given.arg, given.model,
                                                            nv, cg.num_qubits) :
                         /\ model' = [given.model EXCEPT !.initial_layout = layout]
                         /\ StartLoop(dag, layout, modify_dag)

\* SabreRouting(modify_dag=...).run(circuit), the heuristic being 'distance'
RoutingStart ==
    /\ rPc = "idle"
    /\ \E circ \in RouteCircuits, cg \in CouplingGraphs, modify_dag \in BOOLEAN :
          RoutingRun(circ, cg, "distance", modify_dag,
                     PassInputs(Cardinality(circuit_to_dag(circ, TRUE).qubits_used),
                                cg.num_qubits))
    /\ UNCHANGED notRoute

\* SabreRouting(heuristic=..., initial_layout=...).run(circuit) on a coupling
\* graph with fidelities, from the trivial layout of all its qubits
HeuristicStart ==
    /\ rPc = "idle"
    /\ \E cg \in HeurGraphs, heuristic \in Heuristics, modify_dag \in BOOLEAN :
          \E circ \in HeurCircuits(cg.num_qubits) :
             RoutingRun(circ, cg, heuristic, modify_dag,
                        {[arg |-> trivial_layout(cg.num_qubits), model |-> NoModel]})
    /\ UNCHANGED notRoute

\* a two-qubit gate of the front layer on a qubit the layout does not have
FrontKeyError ==
    \E i \in DOMAIN rFront :
        /\ IsTwoQubitGate(rDag.nodes[rFront[i]])
        /\ ~InLayout(rLayout, rDag.nodes[rFront[i]].pos)

\* unavailable_2qubits after the scan of the front layer: an executable
\* two-qubit gate frees the pairs that hold one of its physical qubits
still_unavailable(G, cg, layout, front, unavailable_2qubits) ==
    LET used == UNION {{layout[G.nodes[front[i]].pos[1]],
                        layout[G.nodes[front[i]].pos[2]]} :
                          i \in {j \in DOMAIN front :
                                    /\ IsTwoQubitGate(G.nodes[front[j]])
                                    /\ Executable(cg, layout, G.nodes[front[j]])}}
    IN  {item \in unavailable_2qubits : item \cap used = {}}

execute_gate_list ==
    SelectSeq(rFront, LAMBDA n : Executable(rCg, rLayout, rDag.nodes[n]))

\* an iteration of the main loop that applies the executable gates
ExecuteGates ==
    /\ rPc = "loop"
    /\ rFront # <<>>
    /\ IF FrontKeyError THEN Raise("KeyError")
       ELSE /\ execute_gate_list # <<>>
            /\ LET st == ExecuteList(rDag, execute_gate_list, rApply, rLayout,
                            [fl |-> rFront, cnt |-> rCount, mapped |-> rMapped,
                             err |-> FALSE])
               IN  IF st.err THEN Raise("KeyError")
                   ELSE /\ rFront' = st.fl
                        /\ rCount' = st.cnt
                        /\ rMapped' = st.mapped
                        /\ rIter' = 0
                        /\ rDecay' = [q \in DOMAIN rDecay |-> 0]
                        /\ rUnavail' = still_unavailable(rDag, rCg, rLayout, rFront,
                                                         rUnavail)
                        /\ UNCHANGED <<rDag, rLayout, rSwaps, rLastSwap, rApply, rPc,
                                       rOut>>
    /\ UNCHANGED <<rIn, rCg, rHeur, rMode, rPasses, rAlt, model, rGiven, notRoute>>

\* self.add_swap_count += 1; the count is kept up to MaxSwaps, which then
\* reads 'MaxSwaps or more'
add_swap(count) == IF count < MaxSwaps THEN count + 1 ELSE MaxSwaps

\* an iteration of the main loop that inserts the best swap; a run that
\* builds mapped_dag is followed up to MaxSwaps swaps, and iteration_count is
\* kept modulo decay_reset_interval, which is all the loop reads of it
InsertSwap ==
    /\ rPc = "loop"
    /\ rFront # <<>>
    /\ ~FrontKeyError
    /\ execute_gate_list = <<>>
    /\ rApply => rSwaps < MaxSwaps
    /\ LET ext == calc_extended_set(rDag, rFront, {}, rCg.num_qubits)
       IN  IF \/ ~SwapsDefined(rDag, rCg, rLayout, rFront)
              \/ \E n \in ext : ~InLayout(rLayout, rDag.nodes[n].pos)
              \/ \E c \in obtain_swaps(rDag, rCg, rLayout, rFront) :
                    c[1] \notin DOMAIN rDecay \/ c[2] \notin DOMAIN rDecay
           THEN Raise("KeyError")
           ELSE \E best_swap \in get_best_swap(rDag, rCg, rHeur, rFront, ext, rLayout,
                                    rDecay, rUnavail,
                                    obtain_swaps(rDag, rCg, rLayout, rFront)) :
                   /\ rMapped' = apply_gate(rMapped, rApply,
                                    [name |-> "swap",
                                     pos |-> <<best_swap[1], best_swap[2]>>],
                                    -2 - rSwaps, rLayout)
                   /\ rSwaps' = add_swap(rSwaps)
                   /\ rLayout' = layout_swap(rLayout, best_swap[1], best_swap[2])
                   /\ rUnavail' = rUnavail \cup {{rLayout[best_swap[1]],
                                                  rLayout[best_swap[2]]}}
                   /\ rLastSwap' = {rLayout[best_swap[1]], rLayout[best_swap[2]]}
                   /\ rIter' = (rIter + 1) % RoundHalf(rCg.num_qubits)
                   /\ rDecay' = IF (rIter + 1) % RoundHalf(rCg.num_qubits) = 0
                                THEN [q \in DOMAIN rDecay |-> 0]
                                ELSE [rDecay EXCEPT ![best_swap[1]] = @ + 1,
                                                    ![best_swap[2]] = @ + 1]
                   /\ UNCHANGED <<rDag, rFront, rCount, rApply, rPc, rOut>>
    /\ UNCHANGED <<rIn, rCg, rHeur, rMode, rPasses, rAlt, model, rGiven, notRoute>>

\* the front layer is empty: SabreRouting.run returns
RoutingReturn ==
    /\ rMode = "routing"
    /\ rPc = "loop"
    /\ rFront = <<>>
    /\ Stop("returned",
            [st |-> "ok", measures |-> <<>>,
             gates |-> IF rApply THEN rMapped ELSE DagNodes(rDag)])
    /\ model' = routing_update_model(model, rLayout, rSwaps)
    /\ UNCHANGED <<rIn, rCg, rHeur, rMode, rPasses, rAlt, rGiven, notRoute>>

\* p2c of SabreLayout.run: the measured qubits through the final layout,
\* sorted by classical bit
RECURSIVE SortByCbit(_)
SortByCbit(S) ==
    IF S = {} THEN <<>>
    ELSE LET m == CHOOSE x \in S : \A y \in S : x[2] <= y[2]
         IN  <<m>> \o SortByCbit(S \ {m})

\* variant of the mapping below that keeps the virtual qubits
MeasureP2c_virtual(layout, ms) ==
    SortByCbit({<<ms[i][1], ms[i][2]>> : i \in DOMAIN ms})

MeasureP2c(layout, ms) ==
    SortByCbit({<<layout[ms[i][1]], ms[i][2]>> : i \in DOMAIN ms})

\* SabreLayout.run: a random initial layout is set when the Model has no
\* final layout
layout_initial_models(m, nv, np) ==
    IF m.final_layout = NoLayout
    THEN {[m EXCEPT !.initial_layout = layout] :
             layout \in generate_random_layout(nv, np)}
    ELSE {m}

\* SabreLayout(max_iterations=...).run(circuit) up to the first routing run
LayoutStart ==
    /\ rPc = "idle"
    /\ \E circ \in RouteCircuits, cg \in CouplingGraphs,
          max_iterations \in 0..MaxIterations :
          LET dag0 == circuit_to_dag(circ, TRUE)
              nv == Cardinality(dag0.qubits_used)
              dag == remove_measure_nodes(dag0)
              rev_dag == circuit_to_dag(reverse_circuit(circ), TRUE)
          IN  \E given \in PassInputs(nv, cg.num_qubits) :
              /\ rIn' = circ
              /\ rCg' = cg
              /\ rMode' = "layout"
              /\ rHeur' = "distance"
              /\ rGiven' = given
              /\ IF nv = 1
                 THEN /\ rPc' = "returned"
                      /\ rOut' = [st |-> "ok", gates |-> DagNodes(dag),
                                  measures |-> circ.measures]
                      /\ rPasses' = 0
                      /\ rAlt' = NoPair
                      /\ model' = given.model
                      /\ UNCHANGED <<rDag, rFront, rCount, rLayout, rDecay, rIter,
                                     rSwaps, rMapped, rUnavail, rLastSwap,
                                     rApply>>
                 ELSE IF nv > cg.num_qubits
                 THEN /\ rPc' = "raised"
                      /\ rOut' = [st |-> "ValueError", gates |-> <<>>,
                                  measures |-> <<>>]
                      /\ rPasses' = 0
                      /\ rAlt' = NoPair
                      /\ model' = given.model
                      /\ UNCHANGED <<rDag, rFront, rCount, rLayout, rDecay, rIter,
                                     rSwaps, rMapped, rUnavail, rLastSwap,
                                     rApply>>
                 ELSE /\ rPasses' = 2 * max_iterations
                      /\ rAlt' = [cur |-> dag, other |-> rev_dag]
                      /\ \E m \in layout_initial_models(given.model, nv,
                                                        cg.num_qubits) :
                         \E layout \in routing_initial_layouts(NoLayout, m, nv,
                                                               cg.num_qubits) :
                            /\ model' = [m EXCEPT !.initial_layout = layout]
                            /\ StartLoop(copy_dag(dag), layout, max_iterations = 0)
    /\ UNCHANGED notRoute

\* a routing run of the forward-backward iterations has ended: its final
\* layout becomes the initial layout, the two DAGs change places and the
\* next run starts
PassDone ==
    /\ rMode = "layout"
    /\ rPc = "loop"
    /\ rFront = <<>>
    /\ rPasses > 0
    /\ rPasses' = rPasses - 1
    /\ rAlt' = [cur |-> rAlt.other, other |-> rAlt.cur]
    /\ StartLoop(copy_dag(rAlt.other), rLayout, rPasses = 1)
    /\ model' = [routing_update_model(model, rLayout, rSwaps)
                    EXCEPT !.initial_layout = rLayout]
    /\ UNCHANGED <<rIn, rCg, rHeur, rMode, rGiven, notRoute>>

\* the last run has ended: the physical circuit and its measurements
LayoutReturn ==
    /\ rMode = "layout"
    /\ rPc = "loop"
    /\ rFront = <<>>
    /\ rPasses = 0
    /\ IF ~InLayout(rLayout, MeasureKeys(rIn.measures)) THEN Raise("KeyError")
       ELSE Stop("returned",
                 [st |-> "ok", gates |-> rMapped,
                  measures |-> MeasureP2c(rLayout, rIn.measures)])
    /\ model' = routing_update_model(model, rLayout, rSwaps)
    /\ UNCHANGED <<rIn, rCg, rHeur, rMode, rPasses, rAlt, rGiven, notRoute>>

NextRouting == RoutingStart \/ ExecuteGates \/ InsertSwap \/ RoutingReturn

NextHeuristic == HeuristicStart \/ ExecuteGates \/ InsertSwap \/ RoutingReturn

NextLayout ==
    LayoutStart \/ ExecuteGates \/ InsertSwap \/ PassDone \/ LayoutReturn

(***************************************************************************)
(* Peephole optimization (optimization_combine.py).  The passes work on    *)
(* the DAG of circuit_to_dag; gate names are kept in lower case, so the    *)
(* names 'CX', 'H', 'CZ', 'RX', 'RY', 'RZ' of the nodes read "cx", "h",    *)
(* "cz", "rx", "ry", "rz".  gate_record is a function from qubits to the   *)
(* list of recorded nodes, the empty list standing for a missing key too.  *)
(***************************************************************************)
MaxOptLen == 3

OptQubits == 2

\* DAGCircuit.remove_instruction_node on a converted DAG: per position a
\* new edge from the predecessor to the successor, then the node is removed
dag_remove_instruction_node(G, n) ==
    LET qs == NodeQubits(G.nodes[n])
        bypass == [i \in DOMAIN qs |->
                     [u |-> WirePred(G, n, qs[i]), v |-> WireSucc(G, n, qs[i]),
                      q |-> qs[i]]]
        eseq == SelectSeq(G.eseq \o bypass, LAMBDA e : e.u # n /\ e.v # n)
    IN  [G EXCEPT !.order = SelectSeq(@, LAMBDA m : m # n),
                  !.eseq = eseq,
                  !.qubits_used = {eseq[i].q : i \in {j \in DOMAIN eseq : eseq[j].u = Src}}]

\* the edges add_instruction_node adds for the new node
RECURSIVE NewNodeEdges(_, _, _, _)
NewNodeEdges(n, qs, P, S) ==
    IF qs = <<>> THEN <<>>
    ELSE <<[u |-> P[qs[1]], v |-> n, q |-> qs[1]],
           [u |-> n, v |-> S[qs[1]], q |-> qs[1]]>>
         \o NewNodeEdges(n, Tail(qs), P, S)

\* DAGCircuit.add_instruction_node on a converted DAG: on every used qubit
\* of the gate the out-edge of the predecessor and the in-edge of the
\* successor go, then the node comes in between them
dag_add_instruction_node(G, n, node, P, S) ==
    LET qs == node.pos
        used == {q \in {qs[i] : i \in DOMAIN qs} : q \in G.qubits_used}
        gone(e) == e.q \in used /\ (e.u = P[e.q] \/ e.v = S[e.q])
        eseq == SelectSeq(G.eseq, LAMBDA e : ~gone(e)) \o NewNodeEdges(n, qs, P, S)
    IN  [order |-> Append(G.order, n),
         nodes |-> [m \in DOMAIN G.nodes \cup {n} |-> IF m = n THEN node ELSE G.nodes[m]],
         eseq |-> eseq,
         qubits_used |-> {eseq[i].q : i \in {j \in DOMAIN eseq : eseq[j].u = Src}}]

\* the node ids of a set ordered by their labels
RECURSIVE SortByLabel(_, _)
SortByLabel(G, S) ==
    IF S = {} THEN <<>>
    ELSE LET m == CHOOSE x \in S : \A y \in S : G.nodes[x].label <= G.nodes[y].label
         IN  <<m>> \o SortByLabel(G, S \ {m})

\* _sorted_node_list: the nodes by ascending label, the measure node 'm' last
sorted_node_list(G) ==
    LET ns == {G.order[i] : i \in DOMAIN G.order} \ {Src, Snk}
    IN  SortByLabel(G, ns \ {0}) \o (IF 0 \in ns THEN <<0>> ELSE <<>>)

EmptyRecord == [q \in 0..(OptQubits - 1) |-> <<>>]

\* _get_previous_node: the one node that is last at every position with a
\* record, None otherwise
get_previous_node(positions, gate_record) ==
    LET previous_nodes ==
            {gate_record[positions[i]][Len(gate_record[positions[i]])] :
                i \in {j \in DOMAIN positions : gate_record[positions[j]] # <<>>}}
    IN  IF Cardinality(previous_nodes) = 1
        THEN CHOOSE p \in previous_nodes : TRUE ELSE NoneVal

\* for pos in node.pos: gate_record.setdefault(pos, []).append(node)
record_append(gate_record, qs, n) ==
    [q \in DOMAIN gate_record |->
        IF \E i \in DOMAIN qs : qs[i] = q
        THEN Append(gate_record[q], n) ELSE gate_record[q]]

\* for pos in node.pos: gate_record[pos].pop()
record_pop(gate_record, qs) ==
    [q \in DOMAIN gate_record |->
        IF \E i \in DOMAIN qs : qs[i] = q
        THEN SubSeq(gate_record[q], 1, Len(gate_record[q]) - 1)
        ELSE gate_record[q]]

SeqSet(s) == {s[i] : i \in DOMAIN s}

\* variant of the test below that wants identical positions for CZ too
same_pair_positions_exact(previous_node, node) ==
    node.pos = previous_node.pos

\* (name != 'CZ' and node.pos == previous.pos) or
\* (name == 'CZ' and set(node.pos) == set(previous.pos))
same_pair_positions(previous_node, node) ==
    \/ previous_node.name # "cz" /\ node.pos = previous_node.pos
    \/ previous_node.name = "cz" /\ SeqSet(node.pos) = SeqSet(previous_node.pos)

\* the loop of _remove_pair_gate over the sorted nodes
RECURSIVE remove_pair_gate_loop(_, _, _)
remove_pair_gate_loop(G, sorted, gate_record) ==
    IF sorted = <<>> THEN G
    ELSE LET n == Head(sorted)
             node == G.nodes[n]
             qs == NodeQubits(node)
             p == get_previous_node(qs, gate_record)
         IN  IF p # NoneVal /\ G.nodes[p].name \in {"cx", "h", "cz"}
                /\ node.name = G.nodes[p].name
                /\ same_pair_positions(G.nodes[p], node)
             THEN remove_pair_gate_loop(
                     dag_remove_instruction_node(dag_remove_instruction_node(G, p), n),
                     Tail(sorted), record_pop(gate_record, qs))
             ELSE remove_pair_gate_loop(G, Tail(sorted),
                                        record_append(gate_record, qs, n))

remove_pair_gate(G) ==
    remove_pair_gate_loop(G, sorted_node_list(G), EmptyRecord)

\* variant of the sum below that keeps the parameters of the first gate
sum_paras_first(a, b) == a

\* [sum([i, j]) for i, j in zip(previous_node.paras, node.paras)]
sum_paras(a, b) == [i \in DOMAIN a |-> a[i] + b[i]]

\* the loop of _combine_rotate_gate; the merged node is a copy of the
\* previous node (same label, same identity once the previous is removed)
RECURSIVE combine_rotate_gate_loop(_, _, _)
combine_rotate_gate_loop(G, sorted, gate_record) ==
    IF sorted = <<>> THEN [st |-> "ok", dag |-> G]
    ELSE LET n == Head(sorted)
             node == G.nodes[n]
             qs == NodeQubits(node)
             p == get_previous_node(qs, gate_record)
         IN  IF p # NoneVal /\ G.nodes[p].name \in {"rx", "rz", "ry"}
                /\ node.name = G.nodes[p].name /\ node.pos = G.nodes[p].pos
             THEN IF Len(G.nodes[p].paras) # Len(node.paras)
                  THEN [st |-> "ValueError", dag |-> G]
                  ELSE LET new_node == [G.nodes[p] EXCEPT
                                           !.paras = sum_paras(G.nodes[p].paras, node.paras)]
                           predecessors == [q \in SeqSet(qs) |-> WirePred(G, p, q)]
                           successors == [q \in SeqSet(qs) |-> WireSucc(G, n, q)]
                           G1 == dag_remove_instruction_node(G, p)
                           G2 == dag_remove_instruction_node(G1, n)
                           G3 == dag_add_instruction_node(G2, p, new_node,
                                                          predecessors, successors)
                       IN  combine_rotate_gate_loop(G3, Tail(sorted),
                               record_append(record_pop(gate_record, qs), qs, p))
             ELSE combine_rotate_gate_loop(G, Tail(sorted),
                                           record_append(gate_record, qs, n))

combine_rotate_gate(G) ==
    combine_rotate_gate_loop(G, sorted_node_list(G), EmptyRecord)

(***************************************************************************)
(* Inputs and steps of GateCombineOptimization.run.                        *)
(***************************************************************************)
ListParas(t) == [scalar |-> FALSE, v |-> <<t>>]

OptGates ==
    {CGate("h", <<q>>, NoParas, 0, 0) : q \in 0..(OptQubits - 1)}
    \cup {CGate(nm, <<a, 1 - a>>, NoParas, 0, 0) : nm \in {"cx", "cz"}, a \in {0, 1}}
    \cup {CGate("rx", <<0>>, ListParas(t), 0, 0) : t \in {1, 2}}
    \cup {CGate("rz", <<0>>, ListParas(1), 0, 0),
          CGate("ry", <<1>>, ListParas(1), 0, 0)}

OptCircuits ==
    {[gates |-> gs, measures |-> ms] :
        gs \in UNION {GateLists(OptGates, k) : k \in 0..MaxOptLen},
        ms \in {<<>>, <<<<0, 0>>>>}}

\* new_circuit = circuit_to_dag(circuit, measure_flag=True)
\* new_circuit = self._remove_pair_gate(circuit=new_circuit)
RemovePairs ==
    /\ oPc = "idle"
    /\ \E c \in OptCircuits :
          /\ oIn' = c
          /\ oPair' = remove_pair_gate(circuit_to_dag(c, TRUE))
    /\ oPc' = "paired"
    /\ UNCHANGED <<oDag, oOut, notOpt>>

\* new_circuit = self._combine_rotate_gate(circuit=new_circuit)
CombineRotations ==
    /\ oPc = "paired"
    /\ LET r == combine_rotate_gate(oPair)
       IN  /\ oDag' = r.dag
           /\ oPc' = IF r.st = "ok" THEN "merged" ELSE "done"
           /\ oOut' = [st |-> r.st, gates |-> <<>>, measures |-> <<>>]
    /\ UNCHANGED <<oIn, oPair, notOpt>>

\* new_circuit = dag_to_circuit(new_circuit, circuit.num); return new_circuit
CombineReturn ==
    /\ oPc = "merged"
    /\ \E r \in dag_to_circuit(oDag) :
          oOut' = [st |-> r.st, gates |-> r.gates, measures |-> r.measures]
    /\ oPc' = "done"
    /\ UNCHANGED <<oIn, oPair, oDag, notOpt>>

NextCombine == RemovePairs \/ CombineRotations \/ CombineReturn

(***************************************************************************)
(* One-qubit run collapse (one_qubit_optimization.py).  Angles are whole   *)
(* numbers of quarter turns, kept modulo a full turn.  A gate matrix is    *)
(* kept up to its global phase, as the rotation of the Bloch sphere it     *)
(* performs: the images of the axes x, y, z (1, 2, 3), negative when the   *)
(* direction is reversed.  For H and for rotations by quarter turns this   *)
(* is exact.                                                               *)
(***************************************************************************)
MaxRunLen == 4

IdentityMatrix == <<1, 2, 3>>

AxisImage(M, a) == IF a > 0 THEN M[a] ELSE 0 - M[0 - a]

\* A @ B
MatMul(A, B) == [i \in 1..3 |-> AxisImage(A, B[i])]

\* the quarter turn about the axis of a rotation gate
QuarterTurn(name) ==
    IF name = "rx" THEN <<1, 3, -2>>
    ELSE IF name = "ry" THEN <<-3, 2, 1>>
    ELSE <<2, -1, 3>>

RECURSIVE Turns(_, _)
Turns(name, k) ==
    IF k % 4 = 0 THEN IdentityMatrix
    ELSE MatMul(QuarterTurn(name), Turns(name, (k % 4) - 1))

\* gate.matrix of node_to_gate(node)
gate_matrix(node) ==
    IF node.name = "h" THEN <<3, -2, 1>> ELSE Turns(node.name, node.paras[1])

\* zyz_decomposition: (gamma, beta, alpha) with U = RZ(alpha) RY(beta) RZ(gamma)
\* and beta in [0, pi]; where the rotation leaves several angle triples,
\* each of them is kept
zyz_decomposition(U) ==
    {x \in (0..3) \X (0..2) \X (0..3) :
        MatMul(Turns("rz", x[3]), MatMul(Turns("ry", x[2]), Turns("rz", x[1]))) = U}

\* zxz_decomposition: (gamma - pi/2, beta, alpha + pi/2) of the ZYZ angles
zxz_decomposition(U) ==
    {<<(x[1] + 3) % 4, x[2], (x[3] + 1) % 4>> : x \in zyz_decomposition(U)}

\* xyx_decomposition: (gamma, -beta, alpha) of the ZYZ angles of H U H
xyx_decomposition(U) ==
    {<<x[1], 0 - x[2], x[3]>> :
        x \in zyz_decomposition(MatMul(<<3, -2, 1>>, MatMul(U, <<3, -2, 1>>)))}

\* beta == 0 on a float that came out of atan2 of rounded matrix entries: an
\* angle that is exactly 0 may or may not compare equal
float_equals_zero(beta) == IF beta = 0 THEN {TRUE, FALSE} ELSE {FALSE}

one_qubit_gate == {"h", "rx", "rz", "ry"}

NoRecord ==
    [successors |-> NoneVal, matrix |-> IdentityMatrix, nodes |-> <<>>]

\* OneQubitGateOptimization._sorted_node_list: with a measure node among the
\* nodes the last key of the topological order is dropped and the rest is
\* sorted; sorted() fails on the key 'm' next to integer labels
one_qubit_sorted_node_list(G) ==
    LET keys == SelectSeq(topological_sort(G), LAMBDA n : n \notin {Src, Snk})
        kept == IF 0 \in SeqSet(keys) THEN SubSeq(keys, 1, Len(keys) - 1) ELSE keys
        ks == SeqSet(kept)
    IN  IF 0 \in ks /\ ks # {0} THEN [st |-> "TypeError", list |-> <<>>]
        ELSE [st |-> "ok", list |-> IF ks = {0} THEN <<0>> ELSE SortByLabel(G, ks)]

\* for gate in gate_record[pos][-1]: circuit.remove_instruction_node(gate)
RECURSIVE remove_run(_, _)
remove_run(G, nodes) ==
    IF nodes = <<>> THEN G
    ELSE remove_run(dag_remove_instruction_node(G, Head(nodes)), Tail(nodes))

\* gate_to_node(RXGate(pos, angle), label) and the like
rotation_node(name, pos, angle, n) ==
    gate_to_node(CGate(name, <<pos>>, [scalar |-> FALSE, v |-> <<angle % 4>>], 0, 0),
                 n - 1)

\* gate_check: the run at pos goes and one rotation or RZ RY RZ comes in
gate_check(G, rec, pos) ==
    LET node == rec.nodes[1]
        predecessors == [q \in {pos} |-> WirePred(G, node, pos)]
        successors == [q \in {pos} |-> rec.successors]
        label == rec.nodes
        G0 == remove_run(G, rec.nodes)
        one(name, angle) ==
            dag_add_instruction_node(G0, label[1],
                rotation_node(name, pos, angle, label[1]), predecessors, successors)
        three(x) ==
            LET G1 == dag_add_instruction_node(G0, label[1],
                         rotation_node("rz", pos, x[1], label[1]),
                         predecessors, successors)
                G2 == dag_add_instruction_node(G1, label[2],
                         rotation_node("ry", pos, x[2], label[2]),
                         [q \in {pos} |-> label[1]], successors)
            IN  dag_add_instruction_node(G2, label[3],
                    rotation_node("rz", pos, x[3], label[3]),
                    [q \in {pos} |-> label[2]], successors)
    IN  UNION {UNION {UNION {
            IF xz THEN {one("rx", x[1] + x[3])}
            ELSE UNION {UNION {
                    IF zz THEN {one("rz", z[1] + z[3])}
                    ELSE {three(y) : y \in zyz_decomposition(rec.matrix)}
                    : zz \in float_equals_zero(z[2])}
                    : z \in zxz_decomposition(rec.matrix)}
            : xz \in float_equals_zero(x[2])}
            : x \in xyx_decomposition(rec.matrix)}}

\* for pos in ...: if the record holds more than 3 nodes: gate_check
RECURSIVE check_records(_, _, _)
check_records(G, gate_record, qs) ==
    IF qs = <<>> THEN {G}
    ELSE IF Len(gate_record[Head(qs)].nodes) > 3
    THEN UNION {check_records(G1, gate_record, Tail(qs)) :
                   G1 \in gate_check(G, gate_record[Head(qs)], Head(qs))}
    ELSE check_records(G, gate_record, Tail(qs))

\* the loop of _remove_one_qubit_Gate and the clean-up after it
RECURSIVE remove_one_qubit_gate_loop(_, _, _)
remove_one_qubit_gate_loop(G, sorted, gate_record) ==
    IF sorted = <<>>
    THEN check_records(G, gate_record, [q \in 1..OptQubits |-> q - 1])
    ELSE LET n == Head(sorted)
             node == G.nodes[n]
         IN  IF node.name \in one_qubit_gate
             THEN LET pos == node.pos[1]
                      old == gate_record[pos]
                      new == [successors |-> WireSucc(G, n, pos),
                              matrix |-> IF old.nodes # <<>>
                                         THEN MatMul(gate_matrix(node), old.matrix)
                                         ELSE gate_matrix(node),
                              nodes |-> Append(old.nodes, n)]
                  IN  remove_one_qubit_gate_loop(G, Tail(sorted),
                          [gate_record EXCEPT ![pos] = new])
             ELSE LET qs == NodeQubits(node)
                      cleared == [q \in DOMAIN gate_record |->
                                     IF q \in SeqSet(qs) THEN NoRecord
                                     ELSE gate_record[q]]
                  IN  UNION {remove_one_qubit_gate_loop(G1, Tail(sorted), cleared) :
                                G1 \in check_records(G, gate_record, qs)}

(***************************************************************************)
(* Inputs and steps of OneQubitGateOptimization.run.                       *)
(***************************************************************************)
OneQubitGates ==
    {CGate("ry", <<0>>, ListParas(1), 0, 0), CGate("rz", <<0>>, ListParas(2), 0, 0),
     CGate("rx", <<0>>, ListParas(1), 0, 0), CGate("h", <<0>>, NoParas, 0, 0),
     CGate("rz", <<1>>, ListParas(1), 0, 0), CGate("cx", <<0, 1>>, NoParas, 0, 0)}

OneQubitCircuits ==
    {[gates |-> gs, measures |-> ms] :
        gs \in UNION {GateLists(OneQubitGates, k) : k \in 0..MaxRunLen},
        ms \in {<<>>, <<<<0, 0>>>>, <<<<0, 0>>, <<1, 1>>>>}}

\* dag = circuit_to_dag(circuit, measure_flag=True)
\* optimized_dag = self._remove_one_qubit_Gate(dag)
OneQubitCollapse ==
    /\ oPc = "idle"
    /\ \E c \in OneQubitCircuits :
          LET dag == circuit_to_dag(c, TRUE)
              sorted_node == one_qubit_sorted_node_list(dag)
          IN  /\ oIn' = c
              /\ IF sorted_node.st # "ok"
                 THEN /\ oDag' = dag
                      /\ oOut' = [st |-> sorted_node.st, gates |-> <<>>, measures |-> <<>>]
                      /\ oPc' = "returned"
                 ELSE /\ \E G1 \in remove_one_qubit_gate_loop(dag, sorted_node.list,
                                      [q \in 0..(OptQubits - 1) |-> NoRecord]) :
                            oDag' = G1
                      /\ oOut' = oOut
                      /\ oPc' = "collapsed"
    /\ UNCHANGED <<oPair, notOpt>>

\* optimized_circuit = dag_to_circuit(optimized_dag, circuit.num)
OneQubitReturn ==
    /\ oPc = "collapsed"
    /\ \E r \in dag_to_circuit(oDag) :
          oOut' = [st |-> r.st, gates |-> r.gates, measures |-> r.measures]
    /\ oPc' = "returned"
    /\ UNCHANGED <<oIn, oPair, oDag, notOpt>>

NextOneQubit == OneQubitCollapse \/ OneQubitReturn

(***************************************************************************)
(* The compiler entry points (compiler_api.py, compiler.py) and the pass   *)
(* flows.  A pass is named by its class, SabreLayout with its heuristic; a *)
(* PassFlow is the list of its passes.  An optional PassFlow argument is a *)
(* record (given, passes), given being FALSE for None.                     *)
(***************************************************************************)
MaxFlowLen == 2

NoPassFlow == [given |-> FALSE, passes |-> <<>>]

PassFlow(passes) == [given |-> TRUE, passes |-> passes]

level_0_passflow == PassFlow(<<"UnrollTo2Qubit", "UnrollToBasis">>)

\* level_1_passflow, level_2_passflow, level_3_passflow
level_n_passflow(heuristic) ==
    PassFlow(<<"UnrollTo2Qubit", heuristic, "UnrollToBasis", "GateCombineOptimization">>)

\* PresetPassflow.get_passflow
get_passflow(optimization_level) ==
    IF optimization_level = 0 THEN [st |-> "ok", flow |-> level_0_passflow]
    ELSE IF optimization_level = 1
    THEN [st |-> "ok", flow |-> level_n_passflow("SabreLayout(distance)")]
    ELSE IF optimization_level = 2
    THEN [st |-> "ok", flow |-> level_n_passflow("SabreLayout(fidelity)")]
    ELSE IF optimization_level = 3
    THEN [st |-> "ok", flow |-> level_n_passflow("SabreLayout(mixture)")]
    ELSE [st |-> "ValueError", flow |-> NoPassFlow]

\* Transpiler(passflow, initial_model).transpile(circuit, optimization_level):
\* the flow handed to the constructor, the preset one without it
transpiler_passflow(passflow, optimization_level) ==
    IF passflow.given THEN [st |-> "ok", flow |-> passflow]
    ELSE get_passflow(optimization_level)

\* Compiler.call_transpiler: transpiler = Transpiler(initial_model=initial_model)
\* transpiler.transpile(logical_circuit, optimization_level=self.optimization_level)
call_transpiler(self) ==
    transpiler_passflow(NoPassFlow, self.optimization_level)

PassNames ==
    {"UnrollTo2Qubit", "UnrollToBasis", "SabreLayout(distance)",
     "GateCombineOptimization", "OneQubitGateOptimization"}

CustomPassFlows ==
    {PassFlow(ps) : ps \in UNION {GateLists(PassNames, k) : k \in 1..MaxFlowLen}}

NoCall ==
    [via |-> "none", passflow |-> NoPassFlow, optimization_level |-> 1,
     transpile |-> TRUE, qpu_given |-> FALSE]

\* call_compiler_api(...): Compiler(...) and compiler.compile() up to the
\* choice of the passes
CallCompilerApi ==
    /\ kPc = "idle"
    /\ \E passflow \in CustomPassFlows \cup {NoPassFlow}, optimization_level \in 0..4,
          transpile \in BOOLEAN, qpu_given \in BOOLEAN :
          LET self == [via |-> "call_compiler_api", passflow |-> passflow,
                       optimization_level |-> optimization_level,
                       transpile |-> transpile, qpu_given |-> qpu_given]
              chosen == call_transpiler(self)
          IN  /\ kCall' = self
              /\ IF ~qpu_given /\ ~transpile
                 THEN kPc' = "ValueError" /\ kTodo' = <<>>
                 ELSE IF ~transpile
                 THEN kPc' = "done" /\ kTodo' = <<>>
                 ELSE IF chosen.st # "ok"
                 THEN kPc' = chosen.st /\ kTodo' = <<>>
                 ELSE kPc' = "transpiling" /\ kTodo' = chosen.flow.passes
    /\ kRan' = <<>>
    /\ UNCHANGED notComp

\* process_circuit: Transpiler(passflow, model).transpile(circuit)
ProcessCircuit ==
    /\ kPc = "idle"
    /\ \E passflow \in CustomPassFlows :
          /\ kCall' = [NoCall EXCEPT !.via = "process_circuit", !.passflow = passflow]
          /\ kTodo' = transpiler_passflow(passflow, 1).flow.passes
    /\ kPc' = "transpiling"
    /\ kRan' = <<>>
    /\ UNCHANGED notComp

\* PassFlow.run: the next pass of the flow runs
RunPass ==
    /\ kPc = "transpiling"
    /\ kTodo # <<>>
    /\ kRan' = Append(kRan, Head(kTodo))
    /\ kTodo' = Tail(kTodo)
    /\ UNCHANGED <<kCall, kPc, notComp>>

\* the flow is through and the transpiled circuit is returned
TranspileReturn ==
    /\ kPc = "transpiling"
    /\ kTodo = <<>>
    /\ kPc' = "done"
    /\ UNCHANGED <<kCall, kTodo, kRan, notComp>>

NextCompile == CallCompilerApi \/ ProcessCircuit \/ RunPass \/ TranspileReturn

(***************************************************************************)
(* OpenQASM 2.0 text.  A program text is a list of lines; a line is a list *)
(* of pieces, one piece for a statement as quafu prints it                 *)
(* ("cx q[0],q[1];") and several when statements were joined without a     *)
(* line break.  The quantum and classical register names are kept once for *)
(* the whole text, nl says whether the text ends with a line break.        *)
(***************************************************************************)
MaxQasmLen == 3

QasmQubits == 3

NoName == "None"

Piece(k, nm, qs, cs) == [k |-> k, nm |-> nm, qs |-> qs, cs |-> cs]

Statement(k, nm, qs, cs) == <<Piece(k, nm, qs, cs)>>

Text(qreg, creg, lines, nl) == [qreg |-> qreg, creg |-> creg, lines |-> lines, nl |-> nl]

NoText == Text(NoName, NoName, <<>>, FALSE)

\* 'word' in elem
Contains(line, word) == \E i \in DOMAIN line : line[i].k = word

\* 'word' in circuit
TextContains(text, word) == \E i \in DOMAIN text.lines : Contains(text.lines[i], word)

RECURSIVE FirstLine(_, _, _)
\* re.search: the index of the first line with a piece of the kind, 0 if none
FirstLine(lines, word, i) ==
    IF i > Len(lines) THEN 0
    ELSE IF Contains(lines[i], word) THEN i
    ELSE FirstLine(lines, word, i + 1)

FirstPiece(line, word) == line[CHOOSE i \in DOMAIN line : line[i].k = word /\ \A j \in 1..(i - 1) : line[j].k # word]

\* qreg_creg for a text with the OPENQASM 2.0 and include headers
qreg_creg(circuit) ==
    IF ~(TextContains(circuit, "OPENQASM") /\ TextContains(circuit, "include"))
    THEN [st |-> "TypeError", qreg_name |-> NoName, creg_name |-> NoName,
          qubit_num |-> 0, cbit_num |-> 0]
    ELSE LET qi == FirstLine(circuit.lines, "qreg", 1)
             ci == FirstLine(circuit.lines, "creg", 1)
         IN  [st |-> "ok",
              qreg_name |-> IF qi = 0 THEN NoName ELSE circuit.qreg,
              creg_name |-> IF ci = 0 THEN NoName ELSE circuit.creg,
              qubit_num |-> IF qi = 0 THEN 0
                            ELSE FirstPiece(circuit.lines[qi], "qreg").qs[1],
              cbit_num |-> IF ci = 0 THEN 0
                           ELSE FirstPiece(circuit.lines[ci], "creg").cs[1]]

(***************************************************************************)
(* check_openqasm (program_verification.py).                               *)
(***************************************************************************)
NoMatch == <<>>

\* re.match(r'(\w+)\s*(\(.*?\))?\s+q\[(\d+)\](?:,q\[(\d+)\])?;', line): the
\* name, one qubit argument, optionally a second one, then the semicolon.
\* The qubits of groups 3 and 4 when the line matches, NoMatch when not.
gate_match(line) ==
    IF line[1].k # "gate" \/ line[1].qs = <<>> THEN NoMatch
    ELSE LET rest == Tail(line[1].qs)
         IN  IF rest = <<>> THEN <<line[1].qs[1]>>
             ELSE IF Tail(rest) = <<>> THEN <<line[1].qs[1], rest[1]>>
             ELSE NoMatch

Result(st, single_nums, two_nums) ==
    [st |-> st, single_nums |-> single_nums, two_nums |-> two_nums]

NoResult == Result("none", 0, 0)

RECURSIVE SplitLines(_, _, _, _)
\* the first loop: gate_str_list, or the Exception of a register too large
SplitLines(lines, i, chip_qubit_num, gate_str_list) ==
    IF i > Len(lines) THEN [st |-> "ok", gate_str_list |-> gate_str_list]
    ELSE LET elem == lines[i]
         IN  IF Contains(elem, "measure") \/ Contains(elem, "barrier")
             THEN SplitLines(lines, i + 1, chip_qubit_num, gate_str_list)
             ELSE IF Contains(elem, "OPENQASM") \/ Contains(elem, "include")
             THEN SplitLines(lines, i + 1, chip_qubit_num, gate_str_list)
             ELSE IF Contains(elem, "qreg") \/ Contains(elem, "creg")
             THEN LET d == IF Contains(elem, "qreg")
                           THEN FirstPiece(elem, "qreg").qs[1]
                           ELSE FirstPiece(elem, "creg").cs[1]
                  IN  IF d > chip_qubit_num
                      THEN [st |-> "Exception", gate_str_list |-> <<>>]
                      ELSE SplitLines(lines, i + 1, chip_qubit_num, gate_str_list)
             ELSE SplitLines(lines, i + 1, chip_qubit_num, Append(gate_str_list, elem))

\* legal_matrix[a][b]
legal_matrix(coupling_list, a, b) == <<a, b>> \in coupling_list

RECURSIVE CountGates(_, _, _, _, _, _)
\* the second loop over gate_str_list
CountGates(gate_str_list, i, coupling_list, chip_qubit_num, single_nums, two_nums) ==
    IF i > Len(gate_str_list) THEN Result("ok", single_nums, two_nums)
    ELSE LET qubits == gate_match(gate_str_list[i])
         IN  IF qubits = NoMatch
             THEN CountGates(gate_str_list, i + 1, coupling_list, chip_qubit_num,
                             single_nums, two_nums)
             ELSE IF Len(qubits) = 1
             THEN IF qubits[1] > chip_qubit_num
                  THEN Result("Exception", single_nums + 1, two_nums)
                  ELSE CountGates(gate_str_list, i + 1, coupling_list, chip_qubit_num,
                                  single_nums + 1, two_nums)
             ELSE IF Len(qubits) = 2
             THEN IF qubits[1] >= chip_qubit_num \/ qubits[2] >= chip_qubit_num
                  THEN Result("IndexError", single_nums, two_nums + 1)
                  ELSE IF legal_matrix(coupling_list, qubits[1], qubits[2])
                  THEN CountGates(gate_str_list, i + 1, coupling_list, chip_qubit_num,
                                  single_nums, two_nums + 1)
                  ELSE Result("ValueError", single_nums, two_nums + 1)
             ELSE Result("ValueError", single_nums, two_nums)

check_openqasm(qasm, coupling_list, chip_qubit_num) ==
    LET names == qreg_creg(qasm)
    IN  IF names.st # "ok" THEN Result(names.st, 0, 0)
        ELSE LET split == SplitLines(qasm.lines, 1, chip_qubit_num, <<>>)
             IN  IF split.st # "ok" THEN Result(split.st, 0, 0)
                 ELSE LET n == CountGates(split.gate_str_list, 1, coupling_list,
                                          chip_qubit_num, 0, 0)
                      IN  IF n.st # "ok" THEN n
                          ELSE IF n.two_nums > 100000
                          THEN Result("Error: two-qubit gates", n.single_nums, n.two_nums)
                          ELSE IF n.single_nums > 5000000
                          THEN Result("Error: single-qubit gates", n.single_nums, n.two_nums)
                          ELSE IF n.single_nums = 0 /\ n.two_nums = 0
                          THEN Result("Warning: empty circuit", 0, 0)
                          ELSE Result("True", n.single_nums, n.two_nums)

(***************************************************************************)
(* Inputs and steps of check_openqasm.                                     *)
(***************************************************************************)
Headers(n, withCreg) ==
    <<Statement("OPENQASM", "", <<>>, <<>>), Statement("include", "", <<>>, <<>>),
      Statement("qreg", "q", <<n>>, <<>>)>>
    \o (IF withCreg THEN <<Statement("creg", "c", <<>>, <<n>>)>> ELSE <<>>)

GateStatements ==
    {Statement("gate", "h", <<0>>, <<>>),
     Statement("gate", "cx", <<0, 1>>, <<>>),
     Statement("gate", "cx", <<0, 2>>, <<>>),
     Statement("gate", "cx", <<2, 1>>, <<>>),
     Statement("gate", "ccx", <<0, 1, 2>>, <<>>)}

RECURSIVE LineLists(_, _)
LineLists(S, n) ==
    IF n = 0 THEN {<<>>}
    ELSE {Append(l, x) : l \in LineLists(S, n - 1), x \in S}

VerifyPrograms ==
    {Text("q", "c", Headers(QasmQubits, TRUE) \o body, TRUE) :
        body \in UNION {LineLists(GateStatements, k) : k \in 0..MaxQasmLen}}

\* coupling_list of a chip: both directions of each coupled pair
VerifyCouplings ==
    {{<<0, 1>>, <<1, 0>>, <<1, 2>>, <<2, 1>>},
     {<<0, 1>>, <<1, 0>>, <<0, 2>>, <<2, 0>>}}

NoArg == [coupling_list |-> {}, chip_qubit_num |-> 0]

NoSelf ==
    [circuit |-> NoText, qasm_lines |-> <<>>, rename_qreg |-> NoName, rename |-> FALSE,
     qreg_name |-> NoName, creg_name |-> NoName, qubit_num |-> 0, cbit_num |-> 0]

\* a caller holds a program and the chip's coupling list
VerifyCall ==
    /\ fPc = "idle"
    /\ \E qasm \in VerifyPrograms, cl \in VerifyCouplings,
          n \in {QasmQubits - 1, QasmQubits} :
          /\ fIn' = qasm
          /\ fArg' = [coupling_list |-> cl, chip_qubit_num |-> n]
    /\ fPc' = "called"
    /\ UNCHANGED <<fSelf, fOut, notFront>>

\* check_openqasm(qasm, coupling_list, chip_qubit_num)
CheckOpenqasm ==
    /\ fPc = "called"
    /\ fOut' = check_openqasm(fIn, fArg.coupling_list, fArg.chip_qubit_num)
    /\ fPc' = "checked"
    /\ UNCHANGED <<fIn, fArg, fSelf, notFront>>

NextVerify == VerifyCall \/ CheckOpenqasm

(***************************************************************************)
(* StandardizedCircuit (standardized_circuit.py).                          *)
(***************************************************************************)
\* circuit.strip().splitlines()
splitlines(circuit) == circuit.lines

\* "\n".join(qasm_lines)
join(qreg_name, creg_name, qasm_lines) == Text(qreg_name, creg_name, qasm_lines, FALSE)

\* list.insert(i, x) with a 0-based i: x comes to stand before the old element i
insert(lines, i, x) == SubSeq(lines, 1, i) \o <<x>> \o SubSeq(lines, i + 1, Len(lines))

\* list.pop(i) with a 0-based i
pop(lines, i) == SubSeq(lines, 1, i) \o SubSeq(lines, i + 2, Len(lines))

RECURSIVE Flatten(_)
Flatten(lines) == IF lines = <<>> THEN <<>> ELSE Head(lines) \o Flatten(Tail(lines))

RECURSIVE MeasuredOf(_)
\* re.findall(measure_pattern, ...): the measured qubits in text order
MeasuredOf(pieces) ==
    IF pieces = <<>> THEN <<>>
    ELSE (IF Head(pieces).k = "measure" THEN <<Head(pieces).qs[1]>> ELSE <<>>)
         \o MeasuredOf(Tail(pieces))

RECURSIVE QubitRefs(_)
\* re.findall(qreg_name\[(\d+), line): every qubit index written in the line
QubitRefs(pieces) ==
    IF pieces = <<>> THEN {}
    ELSE (IF Head(pieces).k \in {"gate", "barrier", "measure", "qargs", "qreg"}
          THEN {Head(pieces).qs[i] : i \in DOMAIN Head(pieces).qs} ELSE {})
         \cup QubitRefs(Tail(pieces))

\* the 0-based index of the last line equal to x:
\* len(lines) - 1 - lines[::-1].index(x)
LastIndex(lines, x) ==
    (CHOOSE i \in DOMAIN lines : lines[i] = x /\ \A j \in (i + 1)..Len(lines) : lines[j] # x) - 1

RECURSIVE BarriersBeforeMeasure(_, _)
\* the loop of lines 65-70: the lines before a measure line that hold a barrier
BarriersBeforeMeasure(lines, i) ==
    IF i > Len(lines) THEN <<>>
    ELSE (IF Contains(lines[i], "measure") /\ i > 1 /\ Contains(lines[i - 1], "barrier")
          THEN <<lines[i - 1]>> ELSE <<>>)
         \o BarriersBeforeMeasure(lines, i + 1)

RECURSIVE PopAll(_, _)
PopAll(lines, barriers) ==
    IF barriers = <<>> THEN lines
    ELSE PopAll(pop(lines, LastIndex(lines, Head(barriers))), Tail(barriers))

\* insert the new barrier before the first measure line
InsertBarrier(lines, measure_qlist) ==
    LET first == FirstLine(lines, "measure", 1)
    IN  IF first = 0 THEN lines
        ELSE insert(lines, first - 1, Statement("barrier", "", measure_qlist, <<>>))

\* reset_barrier: the new value of self.qasm_lines
reset_barrier(self) ==
    LET measure_qlist == MeasuredOf(Flatten(self.circuit.lines))
        found == BarriersBeforeMeasure(self.qasm_lines, 1)
        barrier_before_measure == found # <<>>
        last == self.qasm_lines[Len(self.qasm_lines)]
        barrier_before_measure_lines ==
            found \o (IF Contains(last, "barrier") THEN <<last>> ELSE <<>>)
    IN  IF ~barrier_before_measure
        THEN InsertBarrier(self.qasm_lines, measure_qlist)
        ELSE IF Len(barrier_before_measure_lines) = 1
        THEN IF SeqSet(measure_qlist) # QubitRefs(barrier_before_measure_lines[1])
             THEN InsertBarrier(PopAll(self.qasm_lines, barrier_before_measure_lines),
                                measure_qlist)
             ELSE self.qasm_lines
        ELSE InsertBarrier(PopAll(self.qasm_lines, barrier_before_measure_lines),
                           measure_qlist)

\* StandardizedCircuit.__init__
StandardizedCircuit(circuit, rename, rename_qreg) ==
    LET names == qreg_creg(circuit)
    IN  [circuit |-> circuit, qasm_lines |-> splitlines(circuit),
         rename_qreg |-> rename_qreg, rename |-> rename,
         qreg_name |-> names.qreg_name, creg_name |-> names.creg_name,
         qubit_num |-> names.qubit_num, cbit_num |-> names.cbit_num]

\* lines 124-135: a missing or empty classical register gets the size of qreg
with_creg(self) ==
    IF self.creg_name = NoName
    THEN LET i == CHOOSE k \in 0..Len(self.qasm_lines) :
                    /\ k > 0 => self.qasm_lines[k][1].k = "qreg"
                    /\ \A j \in 1..Len(self.qasm_lines) :
                          (self.qasm_lines[j][1].k = "qreg") => (k > 0 /\ k <= j)
         IN  IF i = 0
             THEN [self EXCEPT !.circuit = join(self.qreg_name, NoName, self.qasm_lines)]
             ELSE LET lines == insert(self.qasm_lines, i,
                                      Statement("creg", "meas", <<>>, <<self.qubit_num>>))
                  IN  [self EXCEPT !.creg_name = "meas", !.cbit_num = self.qubit_num,
                                   !.qasm_lines = lines,
                                   !.circuit = join(self.qreg_name, "meas", lines)]
    ELSE IF self.cbit_num = 0
    THEN [self EXCEPT !.cbit_num = self.qubit_num,
                      !.circuit.lines =
                          [i \in DOMAIN self.circuit.lines |->
                              [j \in DOMAIN self.circuit.lines[i] |->
                                  LET p == self.circuit.lines[i][j]
                                  IN  IF p.k = "creg" /\ p.cs = <<0>>
                                      THEN [p EXCEPT !.cs = <<self.qubit_num>>]
                                      ELSE p]]]
    ELSE self

\* text + s for a piece of text s without a line break in it
concat(text, pieces) ==
    IF text.nl \/ text.lines = <<>>
    THEN [text EXCEPT !.lines = Append(text.lines, pieces), !.nl = FALSE]
    ELSE [text EXCEPT !.lines[Len(text.lines)] = text.lines[Len(text.lines)] \o pieces]

\* text + s + "\n"
concat_line(text, pieces) == [concat(text, pieces) EXCEPT !.nl = TRUE]

RECURSIVE add_measures(_, _, _)
\* circuit + ''.join(["measure q[i] -> c[i];\n" for i in range(qubit_num)])
add_measures(text, i, qubit_num) ==
    IF i >= qubit_num THEN text
    ELSE add_measures(concat_line(text, <<Piece("measure", "", <<i>>, <<i>>)>>),
                      i + 1, qubit_num)

\* barrier = ','.join([f"{self.qreg_name}[{q}]" for q in range(self.qubit_num)])
barrier(qubit_num) == <<Piece("qargs", "", [i \in 1..qubit_num |-> i - 1], <<>>)>>

\* self.circuit.replace(self.qreg_name + '[', f'{self.rename_qreg}[')
replace_qreg(text, rename_qreg) == [text EXCEPT !.qreg = rename_qreg]

\* standardized_circuit: the object after the call and the value returned
standardized_circuit(self0) ==
    IF self0.qubit_num = 0 THEN [st |-> "Exception", self |-> self0]
    ELSE LET self1 == with_creg(self0)
             self2 == IF ~TextContains(self1.circuit, "measure")
                      THEN [self1 EXCEPT !.circuit =
                               add_measures(concat(self1.circuit, barrier(self1.qubit_num)),
                                            0, self1.qubit_num)]
                      ELSE LET lines == reset_barrier(self1)
                           IN  [self1 EXCEPT !.qasm_lines = lines,
                                   !.circuit = join(self1.qreg_name, self1.creg_name, lines)]
             self3 == IF self2.rename
                      THEN LET c == replace_qreg(self2.circuit, self2.rename_qreg)
                           IN  [self2 EXCEPT !.circuit = c, !.qasm_lines = splitlines(c)]
                      ELSE self2
         IN  [st |-> "ok", self |-> self3]

(***************************************************************************)
(* Inputs and steps of StandardizedCircuit.                                *)
(***************************************************************************)
StdQubits == 2

BodyStatements ==
    {Statement("gate", "h", <<0>>, <<>>),
     Statement("gate", "cx", <<0, 1>>, <<>>),
     Statement("barrier", "", <<0>>, <<>>),
     Statement("barrier", "", <<0, 1>>, <<>>)}
    \cup {Statement("measure", "", <<q>>, <<q>>) : q \in 0..(StdQubits - 1)}

HeaderLines(qreg, n, withCreg) ==
    <<Statement("OPENQASM", "", <<>>, <<>>), Statement("include", "", <<>>, <<>>),
      Statement("qreg", qreg, <<n>>, <<>>)>>
    \o (IF withCreg THEN <<Statement("creg", "c", <<>>, <<n>>)>> ELSE <<>>)

\* valid OpenQASM 2.0: a measure needs the classical register it writes to
StdPrograms ==
    {Text(qreg, IF withCreg THEN "c" ELSE NoName,
          HeaderLines(qreg, StdQubits, withCreg) \o body, nl) :
        qreg \in {"q", "qq"}, nl \in BOOLEAN,
        withCreg \in BOOLEAN,
        body \in UNION {LineLists(BodyStatements, k) : k \in 0..MaxQasmLen}}
    \ {t \in {Text(qreg, NoName, HeaderLines(qreg, StdQubits, FALSE) \o body, nl) :
                qreg \in {"q", "qq"}, nl \in BOOLEAN,
                body \in UNION {LineLists(BodyStatements, k) : k \in 0..MaxQasmLen}} :
          TextContains(t, "measure")}

\* new_circuit = StandardizedCircuit(circuit)
NewStandardizedCircuit ==
    /\ fPc = "idle"
    /\ \E circuit \in StdPrograms :
          /\ fIn' = circuit
          /\ fSelf' = StandardizedCircuit(circuit, TRUE, "q")
    /\ fPc' = "constructed"
    /\ UNCHANGED <<fArg, fOut, notFront>>

\* new_circuit.standardized_circuit()
StandardizeRun ==
    /\ fPc = "constructed"
    /\ LET r == standardized_circuit(fSelf)
       IN  /\ fSelf' = r.self
           /\ fOut' = [st |-> r.st, circuit |-> r.self.circuit]
    /\ fPc' = "standardized"
    /\ UNCHANGED <<fIn, fArg, notFront>>

NextStandardize == NewStandardizedCircuit \/ StandardizeRun

(***************************************************************************)
(* UnitaryDecompose (unitary_decompose.py) on 0/1 matrices.  A matrix is   *)
(* its size and the set of positions <<row, column>> that hold a 1; the    *)
(* unitaries among them are the permutation matrices, for which every      *)
(* numpy operation used here is exact.                                     *)
(***************************************************************************)
MaxUnitaryQubits == 3

Mat(size, ones) == [size |-> size, ones |-> ones]

\* np.eye(size)
Eye(size) == Mat(size, {<<i, i>> : i \in 0..(size - 1)})

\* a @ b for matrices with at most one 1 in every row and column
MatProd(a, b) ==
    Mat(a.size, {<<z[1][1], z[2][2]>> :
                    z \in {w \in a.ones \X b.ones : w[1][2] = w[2][1]}})

\* mu.split_matrix
split_matrix(matrix) ==
    LET hs == matrix.size \div 2
    IN  [t_left |-> Mat(hs, {o \in matrix.ones : o[1] < hs /\ o[2] < hs}),
         t_right |-> Mat(hs, {<<o[1], o[2] - hs>> :
                                 o \in {x \in matrix.ones : x[1] < hs /\ x[2] >= hs}}),
         b_left |-> Mat(hs, {<<o[1] - hs, o[2]>> :
                                o \in {x \in matrix.ones : x[1] >= hs /\ x[2] < hs}}),
         b_right |-> Mat(hs, {<<o[1] - hs, o[2] - hs>> :
                                 o \in {x \in matrix.ones : x[1] >= hs /\ x[2] >= hs}})]

\* mu.is_zero
is_zero(a) == a.ones = {}

\* mu.is_approx
is_approx(a, b) == a = b

\* mu.is_unitary: mat_dg @ matrix and matrix @ mat_dg are the identity
is_unitary(matrix) ==
    /\ \A i \in 0..(matrix.size - 1) :
          Cardinality({o \in matrix.ones : o[1] = i}) = 1
    /\ \A j \in 0..(matrix.size - 1) :
          Cardinality({o \in matrix.ones : o[2] = j}) = 1

\* matrix[r0:nsize:2, c0:nsize:2]
StepSlice(matrix, r0, c0) ==
    Mat(matrix.size \div 2,
        {<<o[1] \div 2, o[2] \div 2>> :
            o \in {x \in matrix.ones : x[1] % 2 = r0 /\ x[2] % 2 = c0}})

\* matrix[r, :-1] and matrix[r, 1:] as the sets of positions holding a 1
RowButLast(matrix, r) == {o[2] : o \in {x \in matrix.ones : x[1] = r /\ x[2] < matrix.size - 1}}

RowButFirst(matrix, r) == {o[2] - 1 : o \in {x \in matrix.ones : x[1] = r /\ x[2] >= 1}}

\* mu.is_kron_with_id2
is_kron_with_id2(matrix) ==
    LET nsize == matrix.size
        a_cond == is_zero(StepSlice(matrix, 0, 1))
        b_cond == is_zero(StepSlice(matrix, 1, 0))
        c_cond == RowButLast(matrix, 0) = RowButFirst(matrix, 1)
        d_cond == RowButLast(matrix, nsize - 2) = RowButFirst(matrix, nsize - 1)
    IN  a_cond /\ b_cond /\ c_cond /\ d_cond

\* an entry of gates_list: a factor and the qubits it acts on.  The three
\* rotations of one_qubit_circuit, and the gates that lines 130-134 and
\* 145-157 append for a demultiplexing or a cosine-sine decomposition, are
\* kept as one factor each: their product, which the asserts of
\* demultiplexing and fatCSD compare with the matrix they were given.
Factor(matrix, qubits, name) == [matrix |-> matrix, qubits |-> qubits, name |-> name]

RECURSIVE decompose_matrix(_, _)
\* _decompose_matrix: the entries appended to gates_list
decompose_matrix(matrix, qubits) ==
    IF ~is_unitary(matrix) \/ matrix.size # Pow2(Len(qubits))
    THEN [st |-> "AssertionError", gates_list |-> <<>>]
    ELSE IF Len(qubits) = 1
    THEN [st |-> "ok", gates_list |-> <<Factor(matrix, qubits, "one_qubit_circuit")>>]
    ELSE LET U == split_matrix(matrix)
         IN  IF is_zero(U.t_right) /\ is_zero(U.b_left)
             THEN IF is_approx(U.t_left, U.b_right)
                  THEN decompose_matrix(U.t_left, Tail(qubits))
                  ELSE [st |-> "ok",
                        gates_list |-> <<Factor(matrix, qubits, "demultiplexing")>>]
             ELSE IF is_kron_with_id2(matrix)
             THEN decompose_matrix(StepSlice(matrix, 0, 0),
                                   SubSeq(qubits, 1, Len(qubits) - 1))
             ELSE [st |-> "ok", gates_list |-> <<Factor(matrix, qubits, "fatCSD")>>]

\* the factor on the whole register: the identity on the qubits before and
\* after the ones it acts on (general_kron; qubit 0 is the most significant)
OnRegister(factor, num_qubit) ==
    LET lo == Pow2(num_qubit - 1 - factor.qubits[Len(factor.qubits)])
        hi == Pow2(factor.qubits[1])
        ms == factor.matrix.size
    IN  Mat(Pow2(num_qubit),
            {<<(a * ms + o[1]) * lo + b, (a * ms + o[2]) * lo + b>> :
                a \in 0..(hi - 1), b \in 0..(lo - 1), o \in factor.matrix.ones})

RECURSIVE ProductReversed(_, _)
\* unitary = np.eye(nsize); for u in unitary_list[::-1]: unitary = unitary @ u
ProductReversed(unitary, unitary_list) ==
    IF unitary_list = <<>> THEN unitary
    ELSE ProductReversed(MatProd(unitary, unitary_list[Len(unitary_list)]),
                         SubSeq(unitary_list, 1, Len(unitary_list) - 1))

\* cu.gates_list_to_unitary
gates_list_to_unitary(num_qubit, gates_list) ==
    ProductReversed(Eye(Pow2(num_qubit)),
                    [i \in DOMAIN gates_list |-> OnRegister(gates_list[i], num_qubit)])

\* u1.shape[0] * mu.matrix_distance_squared(u1, u2): the number of rows in
\* which the two 0/1 matrices differ
matrix_distance_squared_rows(u1, u2) ==
    LET s == Cardinality(u1.ones \cap u2.ones)
        d == u1.size - s
    IN  IF d < 0 THEN 0 - d ELSE d

(***************************************************************************)
(* Inputs and steps of UnitaryDecompose.                                   *)
(***************************************************************************)
PermutationMatrices(size) ==
    {Mat(size, {<<i, f[i]>> : i \in 0..(size - 1)}) :
        f \in {x \in [0..(size - 1) -> 0..(size - 1)] :
                 \A i \in 0..(size - 1), j \in 0..(size - 1) : x[i] = x[j] => i = j}}

\* [[a, 0], [0, b]]
BlockDiagonal(a, b) ==
    Mat(2 * a.size, a.ones \cup {<<o[1] + a.size, o[2] + a.size>> : o \in b.ones})

\* a on the states with the last qubit 0, b on those with the last qubit 1
ControlledByLast(a, b) ==
    Mat(2 * a.size, {<<2 * o[1], 2 * o[2]>> : o \in a.ones}
                    \cup {<<2 * o[1] + 1, 2 * o[2] + 1>> : o \in b.ones})

RECURSIVE Unitaries(_)
Unitaries(n) ==
    IF n <= 2 THEN PermutationMatrices(Pow2(n))
    ELSE {BlockDiagonal(a, b) : a \in Unitaries(n - 1), b \in Unitaries(n - 1)}
         \cup {ControlledByLast(a, b) : a \in Unitaries(n - 1), b \in Unitaries(n - 1)}

NoDecompose ==
    [array |-> Eye(1), qubits |-> <<>>, nqubit |-> 0, gates_list |-> <<>>, st |-> "none"]

\* ud = UnitaryDecompose(U0, list(range(qubits)))
NewUnitaryDecompose ==
    /\ dPc = "idle"
    /\ \E n \in 2..MaxUnitaryQubits :
          \E U0 \in Unitaries(n) :
             dSelf' = [array |-> U0, qubits |-> [i \in 1..n |-> i - 1], nqubit |-> n,
                       gates_list |-> <<>>, st |-> "ok"]
    /\ dPc' = "constructed"
    /\ UNCHANGED <<dUnitary, notDecomp>>

\* ud.decompose()
Decompose ==
    /\ dPc = "constructed"
    /\ LET r == decompose_matrix(dSelf.array, dSelf.qubits)
       IN  dSelf' = [dSelf EXCEPT !.gates_list = r.gates_list, !.st = r.st]
    /\ dPc' = "decomposed"
    /\ UNCHANGED <<dUnitary, notDecomp>>

\* du = cu.gates_list_to_unitary(qubits, ud.gates_list)
GatesListToUnitary ==
    /\ dPc = "decomposed"
    /\ dSelf.st = "ok"
    /\ dUnitary' = gates_list_to_unitary(dSelf.nqubit, dSelf.gates_list)
    /\ dPc' = "multiplied"
    /\ UNCHANGED <<dSelf, notDecomp>>

NextDecompose == NewUnitaryDecompose \/ Decompose \/ GatesListToUnitary

(***************************************************************************)
(* Initial states and specifications.  Each specification exercises one    *)
(* part of the program; the state of the other parts stays as constructed. *)
(***************************************************************************)
DagIdle ==
    /\ g = EmptyGraph
    /\ h = EmptyGraph
    /\ npos = [n \in NodeIds |-> {}]
    /\ hist = NoHist
    /\ sane = TRUE

UnrollIdle ==
    /\ Rules_dict = RulesAtImport
    /\ uBasis = <<>>
    /\ uIn = <<>>
    /\ uOut = OkCirc(<<>>)
    /\ uRun = NoRun

ConvIdle ==
    /\ cIn = NoCircuit
    /\ cDag = NoDag
    /\ cOut = [st |-> "ok", gates |-> <<>>, measures |-> <<>>]
    /\ cRun = "none"

RouteIdle ==
    /\ rIn = NoCircuit
    /\ rCg = Line(3)
    /\ rMode = "none"
    /\ rPasses = 0
    /\ rAlt = NoPair
    /\ rDag = NoDag
    /\ rFront = <<>>
    /\ rCount = ZeroCounts
    /\ rLayout = NoLayout
    /\ rDecay = <<>>
    /\ rIter = 0
    /\ rSwaps = 0
    /\ rMapped = <<>>
    /\ rApply = FALSE
    /\ rPc = "idle"
    /\ rOut = NoOut
    /\ rHeur = "distance"
    /\ rUnavail = {}
    /\ rLastSwap = {}
    /\ model = NoModel
    /\ rGiven = NoGiven

OptIdle ==
    /\ oIn = NoCircuit
    /\ oPair = NoDag
    /\ oDag = NoDag
    /\ oOut = [st |-> "ok", gates |-> <<>>, measures |-> <<>>]
    /\ oPc = "idle"

CompIdle ==
    /\ kCall = NoCall
    /\ kTodo = <<>>
    /\ kRan = <<>>
    /\ kPc = "idle"

FrontIdle ==
    /\ fIn = NoText
    /\ fArg = NoArg
    /\ fSelf = NoSelf
    /\ fOut = NoResult
    /\ fPc = "idle"

DecompIdle ==
    /\ dSelf = NoDecompose
    /\ dUnitary = Eye(1)
    /\ dPc = "idle"

InitEdit == DagIdle /\ UnrollIdle /\ ConvIdle /\ RouteIdle /\ OptIdle /\ CompIdle
                /\ FrontIdle /\ DecompIdle

SpecEdit == InitEdit /\ [][NextEdit]_vars

SpecCompose == InitEdit /\ [][NextCompose]_vars

InitUnroll == DagIdle /\ UnrollIdle /\ ConvIdle /\ RouteIdle /\ OptIdle /\ CompIdle
                /\ FrontIdle /\ DecompIdle

SpecUnroll == InitUnroll /\ [][NextUnroll]_vars

InitConv == DagIdle /\ UnrollIdle /\ ConvIdle /\ RouteIdle /\ OptIdle /\ CompIdle
                /\ FrontIdle /\ DecompIdle

SpecConv == InitConv /\ [][NextConv]_vars

InitRoute == DagIdle /\ UnrollIdle /\ ConvIdle /\ RouteIdle /\ OptIdle /\ CompIdle
                /\ FrontIdle /\ DecompIdle

SpecRouting == InitRoute /\ [][NextRouting]_vars

SpecLayout == InitRoute /\ [][NextLayout]_vars

SpecHeuristic == InitRoute /\ [][NextHeuristic]_vars

\* the condition under which InsertSwap can take a step
InsertSwapEnabled ==
    /\ rPc = "loop"
    /\ rFront # <<>>
    /\ ~FrontKeyError
    /\ execute_gate_list = <<>>
    /\ rApply => rSwaps < MaxSwaps

\* the main loop runs on, no iteration waits for anything: weak fairness of
\* its steps, that of InsertSwap with its enabling condition written out
SpecHeuristicFair ==
    SpecHeuristic /\ WF_vars(ExecuteGates) /\ WF_vars(RoutingReturn)
        /\ ([]<>(~InsertSwapEnabled) \/ []<><<InsertSwap>>_vars)

InitOpt == DagIdle /\ UnrollIdle /\ ConvIdle /\ RouteIdle /\ OptIdle /\ CompIdle
                /\ FrontIdle /\ DecompIdle

SpecCombine == InitOpt /\ [][NextCombine]_vars

SpecOneQubit == InitOpt /\ [][NextOneQubit]_vars

InitCompile == DagIdle /\ UnrollIdle /\ ConvIdle /\ RouteIdle /\ OptIdle /\ CompIdle
                /\ FrontIdle /\ DecompIdle

SpecCompile == InitCompile /\ [][NextCompile]_vars

InitQasm == DagIdle /\ UnrollIdle /\ ConvIdle /\ RouteIdle /\ OptIdle /\ CompIdle
                /\ FrontIdle /\ DecompIdle

SpecVerify == InitQasm /\ [][NextVerify]_vars

SpecStandardize == InitQasm /\ [][NextStandardize]_vars

InitDecompose == DagIdle /\ UnrollIdle /\ ConvIdle /\ RouteIdle /\ OptIdle /\ CompIdle
                /\ FrontIdle /\ DecompIdle

SpecDecompose == InitDecompose /\ [][NextDecompose]_vars

(***************************************************************************)
(* Properties of the editing operations.                                   *)
(***************************************************************************)
InstrNodes(G) == G.nodes \ {Src, Snk}

\* the wires of a graph without the multigraph keys, with multiplicity
WireCount(G, u, v, q) == Cardinality({e \in G.edges : e.u = u /\ e.v = v /\ e.q = q})

SameWires(G1, G2) ==
    /\ G1.nodes = G2.nodes
    /\ \A u \in AllNodes, v \in AllNodes, q \in Qubits :
          WireCount(G1, u, v, q) = WireCount(G2, u, v, q)

C7_RemoveThenAddRestores ==
    (hist.op = "add_back" /\ WellFormed(hist.pre, npos)) => SameWires(g, hist.pre)

\* a two-qubit node with an instruction node before and after it was removed
\* and put back
C7_Witness ==
    /\ hist.op = "add_back"
    /\ WellFormed(hist.pre, npos)
    /\ Cardinality(hist.pos) = 2
    /\ \E q \in hist.pos : hist.P[q] \in NodeIds
    /\ \E q \in hist.pos : hist.S[q] \in NodeIds

(***************************************************************************)
(* Properties of substitute_node_with_dag and merge_dag.                   *)
(***************************************************************************)
\* the nodes met on wire q from the source on, following the out-edge
\* labelled q, until the sink or a node without such an edge
RECURSIVE WalkWire(_, _, _, _)
WalkWire(G, q, n, fuel) ==
    IF n = Snk \/ fuel = 0 \/ OutEdgesOn(G, n, q) = {}
    THEN <<n>>
    ELSE LET e == CHOOSE x \in OutEdgesOn(G, n, q) : TRUE
         IN  <<n>> \o WalkWire(G, q, e.v, fuel - 1)

WirePath(G, q) == WalkWire(G, q, Src, 2 * MaxNodes + 2)

IsInstr(n) == n \in NodeIds

InstrPath(G, q) == SelectSeq(WirePath(G, q), IsInstr)

RECURSIVE Splice(_, _, _)
Splice(path, n, mid) ==
    IF path = <<>> THEN <<>>
    ELSE IF Head(path) = n THEN mid \o Tail(path)
    ELSE <<Head(path)>> \o Splice(Tail(path), n, mid)

DisjointNodes(G, H) == InstrNodes(G) \cap InstrNodes(H) = {}

\* C5 as stated: substitute_node_with_dag(n, sub) on a DAG satisfying I1-I3,
\* with a sub-DAG satisfying I1-I3 whose used qubits are the positions of n,
\* leaves a DAG satisfying I1-I3 in which every wire of n runs unbroken from
\* n's former predecessor through sub's nodes on that wire to n's former
\* successor.  (Stated here for a sub-DAG sharing no node with the DAG.)
C5_AsStated ==
    (/\ hist.op = "substitute"
     /\ WellFormed(hist.pre, npos)
     /\ WellFormed(hist.other, npos)
     /\ DisjointNodes(hist.pre, hist.other))
    => /\ WellFormed(g, npos)
       /\ \A q \in hist.pos :
             WirePath(g, q) = Splice(WirePath(hist.pre, q), hist.n, InstrPath(hist.other, q))

\* the same for a sub-DAG that has a node on every one of its wires
SubstituteBusyWires ==
    (/\ hist.op = "substitute"
     /\ WellFormed(hist.pre, npos)
     /\ WellFormed(hist.other, npos)
     /\ DisjointNodes(hist.pre, hist.other)
     /\ \A q \in hist.pos : InstrPath(hist.other, q) # <<>>)
    => /\ WellFormed(g, npos)
       /\ \A q \in hist.pos :
             WirePath(g, q) = Splice(WirePath(hist.pre, q), hist.n, InstrPath(hist.other, q))

\* C6 as stated: for any two DAGs satisfying I1-I3, after
\* self.merge_dag(other) self is acyclic, has one source and one sink, every
\* node has exactly one in-edge and one out-edge per qubit, and every wire
\* used by both passes first through self's nodes and then through other's.
C6_AsStated ==
    (/\ hist.op = "merge"
     /\ WellFormed(hist.pre, npos)
     /\ WellFormed(hist.other, npos))
    => /\ WellFormed(g, npos)
       /\ \A q \in update_qubits_used(hist.pre) \cap update_qubits_used(hist.other) :
             WirePath(g, q) =
                <<Src>> \o InstrPath(hist.pre, q) \o InstrPath(hist.other, q) \o <<Snk>>

\* the same for two DAGs that share no node
MergeDisjoint ==
    (/\ hist.op = "merge"
     /\ WellFormed(hist.pre, npos)
     /\ WellFormed(hist.other, npos)
     /\ DisjointNodes(hist.pre, hist.other))
    => /\ WellFormed(g, npos)
       /\ \A q \in update_qubits_used(hist.pre) \cap update_qubits_used(hist.other) :
             WirePath(g, q) =
                <<Src>> \o InstrPath(hist.pre, q) \o InstrPath(hist.other, q) \o <<Snk>>

(***************************************************************************)
(* Properties of the unrolling passes.                                     *)
(***************************************************************************)
GateNames(c) == {c[i].name : i \in 1..Len(c)}

CountName(c, nm) == Cardinality({i \in 1..Len(c) : c[i].name = nm})

\* C3: whenever UnrollToBasis.run returns a circuit, every gate in it has a
\* name in the target basis of the instance (basis_gates plus barrier, delay,
\* xy and measure), whatever the input gate, the basis and the rule.
C3_AsStated ==
    (uRun.pass = "basis" /\ uOut.st = "ok")
        => GateNames(uOut.gates) \subseteq uBasis[uRun.inst]

ToffoliBasis == InitBasisGates({"cx", "rx", "ry", "rz", "id", "h"})

\* C9: unrolling the Toffoli gate on qubits (0,1,2) with UnrollToBasis and
\* target basis {cx, rx, ry, rz, id, h} returns a circuit with exactly 6 CNOT
\* gates and no gate outside the basis.
C9_AsStated ==
    (/\ uRun.pass = "basis"
     /\ uIn = <<Gt3("ccx", 0, 1, 2)>>
     /\ uBasis[uRun.inst] = ToffoliBasis)
        => /\ uOut.st = "ok"
           /\ CountName(uOut.gates, "cx") = 6
           /\ GateNames(uOut.gates) \subseteq ToffoliBasis

\* C10: whenever UnrollTo2Qubit.run returns a circuit, every gate in it other
\* than barrier, measure, delay and xy acts on at most two qubits.
C10_AtMostTwoQubits ==
    (uRun.pass = "2qubit" /\ uOut.st = "ok")
        => \A i \in 1..Len(uOut.gates) :
              \/ uOut.gates[i].name \in quantum_element
              \/ Len(uOut.gates[i].pos) <= 2

\* a multi-controlled gate on more than three qubits has been unrolled
C10_Witness ==
    /\ uRun.pass = "2qubit"
    /\ uOut.st = "ok"
    /\ uOut.gates # <<>>
    /\ \E i \in 1..Len(uIn) :
          uIn[i].name \in {"mcx", "mcry"} /\ Len(uIn[i].pos) > 3

(***************************************************************************)
(* Properties of the conversion.                                           *)
(***************************************************************************)
\* what the round trip has to keep of a gate
GateView(x) == [name |-> x.name, pos |-> x.pos, paras |-> x.paras]

\* the gates of a circuit that act on qubit q, in order
OnQubit(gs, q) ==
    LET on == SelectSeq(gs, LAMBDA x : \E i \in DOMAIN x.pos : x.pos[i] = q)
    IN  [i \in DOMAIN on |-> GateView(on[i])]

\* C8: for every circuit C, dag_to_circuit(circuit_to_dag(C)) has as many
\* gates as C and on every qubit the same sequence of gates (name, positions,
\* parameters); the same holds when the DAG is built with nodelist_to_dag.
C8_AsStated ==
    cRun = "dag_to_circuit"
        => /\ cOut.st = "ok"
           /\ Len(cOut.gates) = Len(cIn.gates)
           /\ \A q \in 0..(ConvQubits - 1) :
                 OnQubit(cOut.gates, q) = OnQubit(cIn.gates, q)

(***************************************************************************)
(* Properties of routing and layout.                                       *)
(***************************************************************************)
\* the two-qubit gates of the returned circuit sit on coupled qubits
OnCoupling(gates) ==
    \A i \in DOMAIN gates :
        IsTwoQubitGate(gates[i])
            => has_edge(rCg, gates[i].pos[1], gates[i].pos[2])

\* C1: every two-qubit gate of the circuit SabreLayout.run returns, original
\* or inserted SWAP, acts on a pair of physical qubits that is an edge of the
\* coupling graph.
C1_OnCouplingEdges ==
    (rMode = "layout" /\ rPc = "returned") => OnCoupling(rOut.gates)

\* SabreLayout.run has returned a circuit with a SWAP and a CNOT
C1_Witness ==
    /\ rMode = "layout"
    /\ rPc = "returned"
    /\ \E i, j \in DOMAIN rOut.gates :
          rOut.gates[i].name = "swap" /\ rOut.gates[j].name = "cx"

\* the instruction nodes of the input DAG that act on a qubit: the gates and,
\* if the circuit measures, the measure node
InputIds == (1..Len(rIn.gates)) \cup (IF rIn.measures = <<>> THEN {} ELSE {0})

InputNode(n) == circuit_to_dag(rIn, TRUE).nodes[n]

Emitted(n) == {i \in DOMAIN rOut.gates : rOut.gates[i].id = n}

\* C2: in apply mode every instruction node of the input DAG appears exactly
\* once in the mapped DAG SabreRouting.run returns, its positions remapped
\* through the layout current at its emission, and every other node is an
\* inserted SWAP (or the measure node of a circuit that measures nothing).
C2_AsStated ==
    (rMode = "routing" /\ rApply /\ rPc = "returned")
        => /\ \A n \in InputIds : Cardinality(Emitted(n)) = 1
           /\ \A i \in DOMAIN rOut.gates :
                 LET e == rOut.gates[i]
                 IN  IF e.id \in InputIds
                     THEN /\ e.name = InputNode(e.id).name
                          /\ e.vpos = InputNode(e.id).pos
                          /\ e.pos = apply_gate(<<>>, TRUE, InputNode(e.id), e.id,
                                                e.via)[1].pos
                     ELSE \/ e.name = "swap" /\ e.id < 0
                          \/ e.name = "measure" /\ e.vpos = <<>>

(***************************************************************************)
(* Properties of the recursion in the unrolling passes.                    *)
(***************************************************************************)
\* the error raised when the depth is used up
CannotBeUnrolled == IF uRun.pass = "basis" THEN "ValueError" ELSE "TypeError"

\* C11 as stated: rule expansion never nests deeper than 8 rule applications,
\* and a run either completes or fails with the 'cannot be unrolled' error.
C11_AsStated ==
    uRun # NoRun
        => /\ \A i \in DOMAIN uIn : RunNesting(i).deep <= gate_run_limit
           /\ uOut.st \in {"ok", CannotBeUnrolled}

\* C11: whatever the rules table holds, rule expansion never nests deeper than
\* 8 rule applications; a run completes, or fails with the 'cannot be
\* unrolled' error after a chain of 8 nested rule applications, or fails with
\* KeyError at a gate without a rule, or yields no circuit at a gate named
\* 'unitary'.
C11_BoundedNesting ==
    uRun # NoRun
        => /\ \A i \in DOMAIN uIn : RunNesting(i).deep <= gate_run_limit
           /\ uOut.st \in {"ok", CannotBeUnrolled, "KeyError", "None",
                           "AttributeError"}
           /\ uOut.st = CannotBeUnrolled
                 => \E i \in DOMAIN uIn :
                       /\ RunNesting(i).deep = gate_run_limit
                       /\ RunNesting(i).raised
           /\ uOut.st = "KeyError"
                 => \E i \in DOMAIN uIn :
                       RunNesting(i).raised /\ RunNesting(i).deep < gate_run_limit
           /\ uOut.st \in {"None", "AttributeError"}
                 => \E i \in DOMAIN uIn : uIn[i].name = "unitary"

\* a run over rules that refer to each other cyclically has used up the depth
C11_Witness ==
    /\ uRun.pass = "basis"
    /\ uOut.st = "ValueError"
    /\ \E i \in DOMAIN uIn :
          RunNesting(i).deep = gate_run_limit /\ RunNesting(i).raised

(***************************************************************************)
(* Properties of the state shared between pass instances.                  *)
(***************************************************************************)
\* the result of the run by an instance constructed alone in the process
AloneResult ==
    LET basis == uBasis[uRun.inst]
    IN  UnrollToBasis_run(uIn, basis, InitRulesDict(RulesAtImport, basis))

\* C12 as stated: constructing a pass instance changes no module-level state,
\* and the result of UnrollToBasis.run for a circuit and a basis is the same
\* whichever other UnrollToBasis instances were constructed before the run.
C12_AsStated ==
    /\ Len(uBasis) = 0 => Rules_dict = RulesAtImport
    /\ Len(uBasis) = 1 => Rules_dict = InitRulesDict(RulesAtImport, uBasis[1])
    /\ uRun.pass = "basis" => uOut = AloneResult

(***************************************************************************)
(* Properties of the Model after routing and layout.                       *)
(***************************************************************************)
\* the SWAP nodes the run inserted into the returned DAG
InsertedSwaps ==
    {i \in DOMAIN rOut.gates :
        rOut.gates[i].name = "swap" /\ rOut.gates[i].id < 0}

\* C13 as stated: after a SabreRouting run in apply mode,
\* model.datadict['add_swap_count'] equals the number of SWAP nodes the run
\* inserted into the returned DAG.
C13_AsStated ==
    (rMode = "routing" /\ rApply /\ rPc = "returned")
        => model.add_swap_count = Cardinality(InsertedSwaps)

\* the initial layout given to the pass: its argument or, without one, the
\* initial layout of the Model
ProvidedLayout(given) ==
    IF given.arg # NoLayout THEN given.arg ELSE given.model.initial_layout

\* C15 as stated: when an initial layout is provided, through the
\* sabre_initial_layout argument or as the model's initial layout, the first
\* forward routing pass of SabreLayout.run starts from exactly that layout.
C15_AsStated ==
    [][(rPc = "idle" /\ rMode' = "layout" /\ rPc' = "loop"
            /\ ProvidedLayout(rGiven') # NoLayout)
          => rLayout' = ProvidedLayout(rGiven')]_vars

\* the measurements of the input circuit through a layout
ThroughLayout(layout) ==
    {<<layout[rIn.measures[i][1]], rIn.measures[i][2]>> : i \in DOMAIN rIn.measures}

MeasuresOf(circ) == {circ.measures[i] : i \in DOMAIN circ.measures}

NoMeasureGate ==
    \A i \in DOMAIN rOut.gates : rOut.gates[i].name # "measure"

\* C16 as stated: the circuit SabreLayout.run returns measures, for every
\* measurement (v, c) of the input circuit, physical qubit final_layout.v2p[v]
\* into c, final_layout being the Model's layout after the final forward pass,
\* and holds no other measurement.
C16_AsStated ==
    (rMode = "layout" /\ rPc = "returned")
        => /\ InLayout(model.final_layout, MeasureKeys(rIn.measures))
           /\ MeasuresOf(rOut) = ThroughLayout(model.final_layout)
           /\ Len(rOut.measures) = Len(rIn.measures)
           /\ NoMeasureGate

UsedQubits == circuit_to_dag(rIn, TRUE).qubits_used

\* C16: for a circuit using more than one qubit the returned circuit measures
\* physical qubit final_layout.v2p[v] into c for every measurement (v, c) of
\* the input circuit and holds no other measurement; a circuit using one qubit
\* is returned with its measurements as they are.
C16_MeasuresThroughFinalLayout ==
    (rMode = "layout" /\ rPc = "returned")
        => IF Cardinality(UsedQubits) = 1
           THEN rOut.measures = rIn.measures /\ NoMeasureGate
           ELSE /\ model.final_layout = rLayout
                /\ InLayout(rLayout, MeasureKeys(rIn.measures))
                /\ MeasuresOf(rOut) = ThroughLayout(rLayout)
                /\ Len(rOut.measures) = Len(rIn.measures)
                /\ NoMeasureGate

\* SabreLayout.run has returned a circuit with an inserted SWAP whose
\* measurement sits on another physical qubit than the measured virtual one
C16_Witness ==
    /\ rMode = "layout"
    /\ rPc = "returned"
    /\ InsertedSwaps # {}
    /\ \E i \in DOMAIN rIn.measures : rLayout[rIn.measures[i][1]] # rIn.measures[i][1]
    /\ MeasuresOf(rOut) = ThroughLayout(rLayout)


(***************************************************************************)
(* Properties of the peephole optimization.                                *)
(***************************************************************************)
\* the gates of the input, by their place 1..n, whose node is gone from G
OptRemoved(G) ==
    {i \in 1..Len(oIn.gates) : ~(\E k \in DOMAIN G.order : G.order[k] = i)}

OptKept(G) == (1..Len(oIn.gates)) \ OptRemoved(G)

Touches(i, j) == SeqSet(oIn.gates[i].pos) \cap SeqSet(oIn.gates[j].pos) # {}

\* gate i comes before gate j, both are CX, H or CZ of the same name, on the
\* same positions (CZ: the same position set)
CancellingPair(i, j) ==
    /\ i < j
    /\ oIn.gates[i].name = oIn.gates[j].name
    /\ oIn.gates[i].name \in {"cx", "h", "cz"}
    /\ IF oIn.gates[i].name = "cz"
       THEN SeqSet(oIn.gates[i].pos) = SeqSet(oIn.gates[j].pos)
       ELSE oIn.gates[i].pos = oIn.gates[j].pos

\* the nodes on wire q of a converted DAG, from the source to the sink
RECURSIVE OptWalk(_, _, _, _)
OptWalk(G, q, n, fuel) ==
    IF fuel = 0 \/ ~(\E i \in DOMAIN G.eseq : G.eseq[i].u = n /\ G.eseq[i].q = q)
    THEN <<>>
    ELSE LET m == WireSucc(G, n, q)
         IN  IF m = Snk THEN <<>> ELSE <<m>> \o OptWalk(G, q, m, fuel - 1)

OptWire(G, q) == OptWalk(G, q, Src, MaxOptLen + 2)

\* the kept gates on wire q in circuit order, then the measure node
KeptOnWire(G, q) ==
    SelectSeq([i \in 1..Len(oIn.gates) |-> i],
              LAMBDA i : i \in OptKept(G) /\ q \in SeqSet(oIn.gates[i].pos))
    \o (IF \E k \in DOMAIN oIn.measures : oIn.measures[k][1] = q
        THEN <<0>> ELSE <<>>)

\* C17: the pair elimination removes gates in pairs of the same name among
\* CX, H, CZ on the same positions (CZ: the same position set) with no
\* remaining gate between them on their wires; no such pair of neighbours
\* is left; the remaining gates keep their order on every wire; and two
\* identical CNOTs alone give the empty circuit.
C17_PairsRemovedExactly ==
    oPc # "idle" =>
        /\ \E mate \in [OptRemoved(oPair) -> OptRemoved(oPair)] :
              \A j \in OptRemoved(oPair) :
                 /\ mate[j] # j /\ mate[mate[j]] = j
                 /\ mate[j] < j =>
                       /\ CancellingPair(mate[j], j)
                       /\ \A k \in (mate[j] + 1)..(j - 1) :
                             Touches(k, j) => k \in OptRemoved(oPair)
        /\ \A i, j \in OptKept(oPair) :
              CancellingPair(i, j) =>
                 \E k \in OptKept(oPair) : i < k /\ k < j /\ Touches(k, j)
        /\ \A q \in 0..(OptQubits - 1) : OptWire(oPair, q) = KeptOnWire(oPair, q)
        /\ (oPc = "done" /\ Len(oIn.gates) = 2 /\ oIn.gates[1] = oIn.gates[2]
            /\ oIn.gates[1].name = "cx")
              => (oOut.st = "ok" /\ oOut.gates = <<>>)

\* two identical CNOTs were given and the empty circuit came back
C17_Witness ==
    /\ oPc = "done" /\ oOut.st = "ok" /\ oOut.gates = <<>>
    /\ Len(oIn.gates) = 2 /\ oIn.gates[1] = oIn.gates[2]
    /\ oIn.gates[1].name = "cx"

\* a converted DAG as a graph of node and edge sets
AsGraph(G) ==
    [nodes |-> SeqSet(G.order),
     edges |-> {[u |-> G.eseq[i].u, v |-> G.eseq[i].v, k |-> i, q |-> G.eseq[i].q] :
                   i \in DOMAIN G.eseq}]

NodePositions(G) ==
    [n \in SeqSet(G.order) \ {Src, Snk} |-> SeqSet(NodeQubits(G.nodes[n]))]

\* name, positions and parameters of the nodes on wire q
WireView(G, q) ==
    LET w == OptWire(G, q)
    IN  [i \in DOMAIN w |-> [name |-> G.nodes[w[i]].name, pos |-> G.nodes[w[i]].pos,
                             paras |-> G.nodes[w[i]].paras]]

\* every run of neighbouring rotations of one name replaced by one rotation
\* carrying the sum of the parameters
RECURSIVE MergeRuns(_)
MergeRuns(vs) ==
    IF Len(vs) < 2 THEN vs
    ELSE IF vs[1].name \in {"rx", "ry", "rz"} /\ vs[2].name = vs[1].name
            /\ vs[2].pos = vs[1].pos
    THEN MergeRuns(<<[vs[1] EXCEPT !.paras = [i \in DOMAIN @ |-> @[i] + vs[2].paras[i]]]>>
                   \o SubSeq(vs, 3, Len(vs)))
    ELSE <<vs[1]>> \o MergeRuns(Tail(vs))

\* the gates of a circuit on qubit q, as name, positions and parameters
CircuitView(gates, q) ==
    LET on == SelectSeq(gates, LAMBDA x : q \in SeqSet(x.pos))
    IN  [i \in DOMAIN on |-> [name |-> on[i].name, pos |-> on[i].pos,
                              paras |-> on[i].paras.v]]

GatesOnly(vs) == SelectSeq(vs, LAMBDA x : x.name # "measure")

\* C18: after the rotation merge every wire holds, in place of each run of
\* k >= 2 neighbouring rotations of one name, one rotation of that name with
\* the sum of the k parameters, and everything else as before; the DAG is
\* acyclic, keeps its sentinels and has one in-edge and one out-edge per
\* qubit of every node (I1-I3); the circuit returned holds the same gates.
C18_RunsMerged ==
    oPc \in {"merged", "done"} =>
        /\ oOut.st = "ok"
        /\ \A q \in 0..(OptQubits - 1) :
              WireView(oDag, q) = MergeRuns(WireView(oPair, q))
        /\ WellFormed(AsGraph(oDag), NodePositions(oDag))
        /\ oPc = "done" =>
              \A q \in 0..(OptQubits - 1) :
                 CircuitView(oOut.gates, q) = GatesOnly(MergeRuns(WireView(oPair, q)))

\* three RX gates on one qubit came back as one RX with the sum
C18_Witness ==
    /\ oPc = "done" /\ oOut.st = "ok"
    /\ Len(oIn.gates) = 3
    /\ \A i \in 1..3 : oIn.gates[i].name = "rx"
    /\ Len(oOut.gates) = 1
    /\ oOut.gates[1].name = "rx"
    /\ oOut.gates[1].paras.v =
          <<oIn.gates[1].paras.v[1] + oIn.gates[2].paras.v[1] + oIn.gates[3].paras.v[1]>>

\* H H on qubit 0 after unrolling to {rx, ry, rz}: twice RY(pi/2), RZ(pi)
HHUnrolled ==
    <<CGate("ry", <<0>>, ListParas(1), 0, 0), CGate("rz", <<0>>, ListParas(2), 0, 0),
      CGate("ry", <<0>>, ListParas(1), 0, 0), CGate("rz", <<0>>, ListParas(2), 0, 0)>>

\* C19: the one-qubit run collapse of the unrolled H H on one qubit returns
\* a circuit without any gate on that qubit.
C19_AsStated ==
    (oPc = "returned" /\ oIn.gates = HHUnrolled) =>
        /\ oOut.st = "ok"
        /\ \A i \in DOMAIN oOut.gates : 0 \notin SeqSet(oOut.gates[i].pos)

(***************************************************************************)
(* Properties of the compiler entry points.                                *)
(***************************************************************************)
\* C20: a transpilation through call_compiler_api / Compiler that was given
\* a custom PassFlow has run exactly the passes of that PassFlow, in their
\* order, when it returns.
C20_AsStated ==
    (kCall.via = "call_compiler_api" /\ kCall.transpile /\ kCall.passflow.given
     /\ kPc = "done")
        => kRan = kCall.passflow.passes

(***************************************************************************)
(* Properties of check_openqasm.                                           *)
(***************************************************************************)
GateLines(text) ==
    {i \in DOMAIN text.lines : text.lines[i][1].k = "gate"}

\* a gate statement on two or more qubits that is not a two-qubit gate on a
\* coupled pair
OtherMultiQubit(line, coupling_list) ==
    /\ Len(line[1].qs) >= 2
    /\ ~(Len(line[1].qs) = 2 /\ <<line[1].qs[1], line[1].qs[2]>> \in coupling_list)

VerifyErrors == {"TypeError", "Exception", "ValueError", "IndexError"}

\* C21: check_openqasm returns True only if every gate statement on two or
\* more qubits acts on exactly two qubits that form a coupled pair, and a
\* program with any other multi-qubit gate statement is rejected with an
\* error.
C21_AsStated ==
    (fPc = "checked"
     /\ \E i \in GateLines(fIn) : OtherMultiQubit(fIn.lines[i], fArg.coupling_list))
        => fOut.st \in VerifyErrors

(***************************************************************************)
(* Properties of StandardizedCircuit.                                      *)
(***************************************************************************)
IsStatement(line, k) == Len(line) = 1 /\ line[1].k = k

\* the first line of the final block of measure statements, Len + 1 if the
\* text does not end with a measure statement
FinalBlockStart(lines) ==
    CHOOSE b \in 1..(Len(lines) + 1) :
        /\ \A i \in b..Len(lines) : IsStatement(lines[i], "measure")
        /\ b > 1 => ~IsStatement(lines[b - 1], "measure")

MeasuredQubits(lines) == SeqSet(MeasuredOf(Flatten(lines)))

OneBarrierBeforeMeasures(lines) ==
    LET b == FinalBlockStart(lines)
    IN  /\ b <= Len(lines)
        /\ b > 1
        /\ IsStatement(lines[b - 1], "barrier")
        /\ SeqSet(lines[b - 1][1].qs) = MeasuredQubits(lines)
        /\ b > 2 => ~IsStatement(lines[b - 2], "barrier")

\* C22: for every valid OpenQASM 2.0 input with at least one qubit, with or
\* without measure statements, the output of standardized_circuit has exactly
\* one barrier statement immediately before the final block of measure
\* statements, and the barrier covers exactly the measured qubits.
C22_AsStated ==
    (fPc = "standardized" /\ fOut.st = "ok") => OneBarrierBeforeMeasures(fOut.circuit.lines)

(***************************************************************************)
(* Properties of UnitaryDecompose.                                         *)
(***************************************************************************)
\* C23: for every n-qubit unitary U, n in 2..5, the gate list assembled by
\* UnitaryDecompose.decompose multiplies out to a matrix M that equals U up
\* to the recorded global phase: matrix_distance_squared(M, U) < 1e-9, which
\* for 0/1 matrices means that no row differs.
C23_AsStated ==
    dPc = "multiplied" => matrix_distance_squared_rows(dUnitary, dSelf.array) = 0

(***************************************************************************)
(* Properties of the front layer of SabreRouting.run.                      *)
(***************************************************************************)
\* the nodes the run has emitted so far (apply mode keeps them in mapped_dag)
EmittedIds == {rMapped[i].id : i \in DOMAIN rMapped}

\* the DAG predecessors of node n
DagPredecessors(G, n) ==
    {G.eseq[i].u : i \in {j \in DOMAIN G.eseq : G.eseq[j].v = n}} \ {Src}

EmissionIndex(n) == CHOOSE i \in DOMAIN rMapped : rMapped[i].id = n

\* node a stands before node b on a wire of the input DAG
BeforeOnWire(a, b) ==
    /\ a # 0
    /\ b = 0 \/ a < b
    /\ SeqSet(NodeQubits(InputNode(a))) \cap SeqSet(NodeQubits(InputNode(b))) # {}

\* C24: during SabreRouting.run a node enters the front layer, and is
\* emitted, only after every one of its DAG predecessors has been emitted, so
\* on every qubit wire the original gates, barriers and the measure node are
\* emitted in the order of the input DAG.
C24_AsStated ==
    (rMode = "routing" /\ rApply /\ rPc = "loop")
        => /\ \A i \in DOMAIN rFront :
                 DagPredecessors(rDag, rFront[i]) \subseteq EmittedIds
           /\ \A a \in EmittedIds \cap InputIds, b \in EmittedIds \cap InputIds :
                 BeforeOnWire(a, b) => EmissionIndex(a) < EmissionIndex(b)


(***************************************************************************)
(* Properties of the heuristics of SabreRouting.                           *)
(***************************************************************************)
\* C25: for every circuit of one- and two-qubit gates, every connected
\* bidirectional coupling graph with enough qubits, every initial layout,
\* every heuristic and every outcome of the random tie-breaks the main loop
\* of SabreRouting terminates: after finitely many SWAP insertions the front
\* layer is empty and the loop is left.  It is stated for the runs in
\* cost-evaluation mode, which the model follows without a limit of swaps.
C25_AsStated == (rPc = "loop" /\ ~rApply) ~> (rPc # "loop")

\* an iteration of the main loop has inserted a swap
SwapStep == rPc = "loop" /\ rPc' = "loop" /\ rLayout' # rLayout

\* the physical qubits of the swap just inserted
SwappedPhysical == {rLayout[v] : v \in {w \in DOMAIN rLayout : rLayout'[w] # rLayout[w]}}

\* the swap just inserted, as _get_best_swap returned it
SwappedVirtual ==
    LET vs == {w \in DOMAIN rLayout : rLayout'[w] # rLayout[w]}
        lo == CHOOSE v \in vs : \A w \in vs : v <= w
        hi == CHOOSE v \in vs : \A w \in vs : w <= v
    IN  <<lo, hi>>

\* C26: under every heuristic SabreRouting never inserts two SWAPs on the
\* same physical qubit pair in immediate succession, with no gate executed on
\* either qubit in between: the pair of the last SWAP is not selected again
\* while it is in unavailable_2qubits, that is, until a two-qubit gate has
\* executed on one of its qubits.
C26_AsStated ==
    [][SwapStep => ~(SwappedPhysical = rLastSwap /\ SwappedPhysical \in rUnavail)]_vars

\* the swaps of least distance score at the current iteration
DistanceBest ==
    best_swaps(rDag, rCg, rFront, calc_extended_set(rDag, rFront, {}, rCg.num_qubits),
               rLayout, rDecay, obtain_swaps(rDag, rCg, rLayout, rFront))

\* the fidelity score of a swap at the current iteration
FidelityScoreNow(swap) ==
    fidelity_score(rDag, rCg, rHeur, rFront,
                   calc_extended_set(rDag, rFront, {}, rCg.num_qubits),
                   rLayout, rDecay, swap)

\* C27: with heuristic 'mixture' the SWAP chosen has the minimum distance
\* score among all candidates, and when several candidates tie on distance
\* the one chosen has the highest fidelity score among the tied candidates
\* that are scored.
C27_AsStated ==
    [][(SwapStep /\ rHeur = "mixture")
          => /\ SwappedVirtual \in DistanceBest
             /\ \A d \in DistanceBest :
                   Available(rLayout, rUnavail, d)
                       => FidelityScoreNow(d) <= FidelityScoreNow(SwappedVirtual)]_vars


(***************************************************************************)
(* Properties of a cost-evaluation run and of the DAG conversions.         *)
(***************************************************************************)
\* a step of a SabreRouting run that builds no mapped DAG (modify_dag = False)
CostEvalStep == rMode' = "routing" /\ ~rApply' /\ rPc \in {"idle", "loop"}

\* the step ends the run by a return
ReturnStep == rPc # "returned" /\ rPc' = "returned"

\* C28: a SabreRouting run in cost-evaluation mode (modify_dag = False) adds,
\* removes or changes no node or edge of the DAG it works on and appends no
\* mapped node, and it returns that DAG; when it returns, the model's
\* final_layout is the layout reached at the end of the run and
\* datadict['add_swap_count'] is the number of SWAPs chosen.
C28_AsStated ==
    [][CostEvalStep
          => /\ rPc = "loop" => (rDag' = rDag /\ rMapped' = <<>>)
             /\ ReturnStep
                   => /\ rOut'.gates = DagNodes(rDag')
                      /\ model'.final_layout = rLayout'
                      /\ model'.add_swap_count = rSwaps']_vars


\* a call of dag_to_circuit, and the second of two calls on the same DAG
ConvertStep == cRun' \in {"dag_to_circuit", "dag_to_circuit again"} /\ cRun' # cRun

SecondConvertStep == cRun = "dag_to_circuit" /\ cRun' = "dag_to_circuit again"

\* C29: dag_to_circuit only reads the DAG: after the call every node of the
\* DAG has the same positions and parameters as before, and converting the
\* same DAG a second time yields a circuit equal to the first.
C29_AsStated ==
    [][/\ ConvertStep
          => \A n \in DOMAIN cDag.nodes :
                /\ cDag'.nodes[n].pos = cDag.nodes[n].pos
                /\ cDag'.nodes[n].paras = cDag.nodes[n].paras
       /\ SecondConvertStep => cOut' = cOut]_vars


\* the step is a call of copy_dag
CopyStep == cRun # "copy_dag" /\ cRun' = "copy_dag"

\* the edges of a converted DAG: end nodes, qubit label (NoneVal without a
\* label) and the number of such edges
LabelledEdges(G) ==
    LET lab(e) == IF HasLabel(e) THEN e.q ELSE NoneVal
    IN  {<<G.eseq[i].u, G.eseq[i].v, lab(G.eseq[i]),
           Cardinality({j \in DOMAIN G.eseq :
                           /\ G.eseq[j].u = G.eseq[i].u
                           /\ G.eseq[j].v = G.eseq[i].v
                           /\ lab(G.eseq[j]) = lab(G.eseq[i])})>> : i \in DOMAIN G.eseq}

\* I3: every node has, for every qubit it acts on, exactly one incoming and
\* exactly one outgoing edge labelled with the qubit
SatisfiesI3(G) ==
    \A n \in SeqSet(G.order) \ {Src, Snk} :
        \A i \in DOMAIN NodeQubits(G.nodes[n]) :
            LET q == NodeQubits(G.nodes[n])[i]
            IN  /\ Cardinality({j \in DOMAIN G.eseq :
                                   /\ G.eseq[j].v = n
                                   /\ HasLabel(G.eseq[j])
                                   /\ G.eseq[j].q = q}) = 1
                /\ Cardinality({j \in DOMAIN G.eseq :
                                   /\ G.eseq[j].u = n
                                   /\ HasLabel(G.eseq[j])
                                   /\ G.eseq[j].q = q}) = 1

\* the outcome of removing the measure node: the exception, or the nodes and
\* edges left
RemovalView(G) ==
    LET r == try_remove_measure_nodes(G)
    IN  IF r.st = "ok"
        THEN [st |-> "ok", nodes |-> SeqSet(r.dag.order), edges |-> LabelledEdges(r.dag)]
        ELSE [st |-> r.st, nodes |-> {}, edges |-> {}]

\* C30: copy_dag(D) returns a DAG with the same nodes as D and, between the
\* same node pairs, the same edges with the same qubit labels, so the copy
\* satisfies I3, and the per-qubit predecessor and successor queries and the
\* removal of a node give on the copy what they give on D.
C30_AsStated ==
    [][CopyStep
          => /\ SeqSet(cDag'.order) = SeqSet(cDag.order)
             /\ cDag'.nodes = cDag.nodes
             /\ LabelledEdges(cDag') = LabelledEdges(cDag)
             /\ SatisfiesI3(cDag')
             /\ \A n \in SeqSet(cDag.order) :
                   /\ qubits_predecessors(cDag', n) = qubits_predecessors(cDag, n)
                   /\ qubits_successors(cDag', n) = qubits_successors(cDag, n)
             /\ RemovalView(cDag') = RemovalView(cDag)]_vars

====
